---- MODULE Spec2Model ----
(***************************************************************************)
(* Event pipeline of SolMemTradingBot: the webhook handler with its        *)
(* IdempotencyStore, the SignalGenerator, the OutcomeTracker and the       *)
(* SQLite SignalStorage.                                                   *)
(*                                                                         *)
(* Values.  An optional value (Python `x | None`) is a sequence of length  *)
(* at most one: <<>> is None and <<v>> is v.  A Decimal or float is the    *)
(* exact rational <<n, d>> in lowest terms with d > 0 (Decimal's 28-digit  *)
(* rounding is not modelled).  datetime values are ticks of one clock.     *)
(***************************************************************************)
EXTENDS Integers, Sequences, FiniteSets, TLC

VARIABLES
    db,               \* SignalStorage: the rows of table `signals`, keyed by id
    signaled_tokens,  \* SignalGenerator._signaled_tokens
    now,              \* the wall clock read by utcnow() / _utc_now()
    uuid_next,        \* the id uuid.uuid4() gives the next stored Signal
    lastOp,           \* the last call made: its name, result and store writes
    created,          \* per token: Signals created since the last reset
    threads,          \* per worker thread: the call in progress and its locals
    seen_signatures,  \* WebhookHandler.seen_signatures._store, oldest first
    requests,         \* per in-flight webhook request: handle()'s frame
    deliveries,       \* every transaction handled so far, with its verdict
    call,             \* a function called on its own: name, arguments, result
    touched           \* the keys given to an IdempotencyStore, least recently touched first

vars == <<db, signaled_tokens, now, uuid_next, lastOp, created,
          threads, seen_signatures, requests, deliveries, call, touched>>

signalVars == <<db, signaled_tokens, now, uuid_next, lastOp, created>>
webhookVars == <<seen_signatures, requests, deliveries>>
otherVars == <<threads, seen_signatures, requests, deliveries, call, touched>>

-----------------------------------------------------------------------------
(* Bounds of the model *)

MaxSignals == 2
MaxTime == 1
MaxThreads == 2
MaxRequests == 2
MaxBatch == 2

Tokens == {"tokA", "tokB"}

-----------------------------------------------------------------------------
(* Optional values and Python truthiness *)

None == <<>>
Some(v) == <<v>>
IsSet(o) == o /= <<>>
Val(o) == o[1]

\* A function that can raise returns a record [raises, value]: raises is TRUE
\* when an exception leaves it.
Returns(v) == [raises |-> FALSE, value |-> v]
Raises == [raises |-> TRUE, value |-> None]

(* Rationals *)

RECURSIVE Gcd(_, _)
Gcd(a, b) == IF b = 0 THEN a ELSE Gcd(b, a % b)

Abs(x) == IF x < 0 THEN -x ELSE x

RNorm(n, d) ==
    LET s == IF d < 0 THEN -1 ELSE 1
        g == Gcd(Abs(n), Abs(d))
    IN  <<(s * n) \div g, (s * d) \div g>>

R(n, d) == RNorm(n, d)
RInt(k) == <<k, 1>>
RZero == <<0, 1>>

RMul(a, b) ==
    LET g1 == Gcd(Abs(a[1]), b[2])
        g2 == Gcd(Abs(b[1]), a[2])
    IN  RNorm((a[1] \div g1) * (b[1] \div g2), (a[2] \div g2) * (b[2] \div g1))

RDiv(a, b) == RMul(a, RNorm(b[2], b[1]))

RSub(a, b) ==
    LET g == Gcd(a[2], b[2])
    IN  RNorm(a[1] * (b[2] \div g) - b[1] * (a[2] \div g), a[2] * (b[2] \div g))

RNeg(a) == <<-a[1], a[2]>>
RPos(a) == a[1] > 0
RIsZero(a) == a[1] = 0

\* bool(x) of an optional number: None and zero are falsy.
Truthy(o) == IsSet(o) /\ ~RIsZero(Val(o))

\* Decimal(str(x)) of a float x: the decimal value its repr prints.
DecimalOfFloat(x) == RNorm(x[1], x[2])

-----------------------------------------------------------------------------
(* src/signals/models.py *)

PENDING == "pending"
MIGRATED == "migrated"
FAILED == "failed"
EXPIRED == "expired"

SignalStatus == {PENDING, MIGRATED, FAILED, EXPIRED}
Terminal == {MIGRATED, FAILED, EXPIRED}

\* SignalOutcome(): every field at its default.
SignalOutcome ==
    [migrated |-> FALSE,
     migration_time |-> None,
     price_at_migration |-> None,
     simulated_entry_sol |-> None,
     simulated_exit_sol |-> None,
     simulated_pnl_pct |-> None,
     simulated_pnl_sol |-> None]

\* Mutant: the entry amount is recorded before the entry price is looked at.
pnl_records_entry_first(s, exit_price_sol, t) ==
    IF ~IsSet(s.entry_price_sol) \/ RIsZero(Val(s.entry_price_sol))
    THEN [s EXCEPT !.outcome.simulated_entry_sol = Some(s.simulated_buy_sol)]
    ELSE LET exit_value == RMul(RDiv(s.simulated_buy_sol, Val(s.entry_price_sol)),
                                exit_price_sol)
         IN  [s EXCEPT !.outcome.simulated_entry_sol = Some(s.simulated_buy_sol),
                       !.outcome.simulated_exit_sol = Some(exit_value),
                       !.updated_at = t]

\* Mutant: the PnL is taken against the exit value, not the buy amount.
pnl_against_exit(s, exit_price_sol, t) ==
    IF ~IsSet(s.entry_price_sol) \/ RIsZero(Val(s.entry_price_sol))
    THEN s
    ELSE LET exit_value == RMul(RDiv(s.simulated_buy_sol, Val(s.entry_price_sol)),
                                exit_price_sol)
             pnl_sol == RSub(exit_value, s.simulated_buy_sol)
         IN  [s EXCEPT !.outcome.simulated_entry_sol = Some(s.simulated_buy_sol),
                       !.outcome.simulated_exit_sol = Some(exit_value),
                       !.outcome.simulated_pnl_sol = Some(pnl_sol),
                       !.outcome.simulated_pnl_pct =
                           IF RIsZero(exit_value) THEN None
                           ELSE Some(RMul(RDiv(pnl_sol, exit_value), RInt(100))),
                       !.updated_at = t]

\* Signal.calculate_simulated_pnl(exit_price_sol), at clock reading t.
calculate_simulated_pnl(s, exit_price_sol, t) ==
    IF ~IsSet(s.entry_price_sol) \/ RIsZero(Val(s.entry_price_sol))
    THEN s
    ELSE LET tokens_bought == RDiv(s.simulated_buy_sol, Val(s.entry_price_sol))
             exit_value == RMul(tokens_bought, exit_price_sol)
             pnl_sol == RSub(exit_value, s.simulated_buy_sol)
             o1 == [s.outcome EXCEPT
                       !.simulated_entry_sol = Some(s.simulated_buy_sol),
                       !.simulated_exit_sol = Some(exit_value),
                       !.simulated_pnl_sol = Some(pnl_sol)]
             o2 == IF RPos(s.simulated_buy_sol)
                   THEN [o1 EXCEPT !.simulated_pnl_pct =
                            Some(RMul(RDiv(pnl_sol, s.simulated_buy_sol), RInt(100)))]
                   ELSE o1
         IN  [s EXCEPT !.outcome = o2, !.updated_at = t]

-----------------------------------------------------------------------------
(* src/models/events.py: the events the generator and the tracker consume *)

\* Settings.filters (FilterThresholds) and the generator's buy amount.
min_liquidity_sol == 5
min_curve_progress_pct == 0
max_curve_progress_pct == 100
simulated_buy_sol == R(1, 2)

\* OutcomeTracker.expiry_hours (a constructor argument), in clock ticks.
expiry_hours == 0

\* limit=1000 of storage.get_pending(limit=1000), scaled to the model's store.
pending_limit == 1

total_supply == 1000000000

TxSignatures == {"sig1"}

\* (token_price_sol, market_cap_sol) of a CurveProgressEvent.
PriceData ==
    {<<None, None>>,
     <<Some(R(2, 1000)), Some(RInt(1000000))>>}

CurveProgressEvents(t) ==
    [token_address : Tokens,
     tx_signature : TxSignatures,
     timestamp : {t},
     curve_progress_pct : {0},
     liquidity_sol : {1, 10},
     price : PriceData]

\* The events a curve update is driven with: the tracker reads only the token
\* and the price data.
CurveUpdateEvents(t) == {e \in CurveProgressEvents(t) : e.liquidity_sol = 10}

market_cap_sol(e) == e.price[2]
token_price_sol(e) == e.price[1]

TokenCreatedEvents(t) ==
    [token_address : Tokens,
     tx_signature : TxSignatures,
     timestamp : {t},
     initial_liquidity_sol : {1, 10}]

MigrationEvents(t) ==
    [token_address : Tokens,
     timestamp : 0..t,
     final_liquidity_sol : {RInt(20)}]

-----------------------------------------------------------------------------
(* src/signals/storage.py *)

\* The column values save() binds for a Signal (outcome_json is the dumped
\* outcome; a NULL column is None).
SignalToRow(s) ==
    [id |-> s.id,
     token_address |-> s.token_address,
     trigger_tx_signature |-> s.trigger_tx_signature,
     signal_time |-> s.signal_time,
     entry_curve_progress_pct |-> s.entry_curve_progress_pct,
     entry_liquidity_sol |-> s.entry_liquidity_sol,
     entry_market_cap_sol |->
         IF Truthy(s.entry_market_cap_sol) THEN s.entry_market_cap_sol ELSE None,
     entry_price_sol |->
         IF Truthy(s.entry_price_sol) THEN s.entry_price_sol ELSE None,
     simulated_buy_sol |-> s.simulated_buy_sol,
     status |-> s.status,
     outcome_json |-> s.outcome,
     created_at |-> s.created_at,
     updated_at |-> s.updated_at]

\* SignalStorage._row_to_signal: a non-empty text column is parsed back.
RowToSignal(row) ==
    [id |-> row.id,
     token_address |-> row.token_address,
     trigger_tx_signature |-> row.trigger_tx_signature,
     signal_time |-> row.signal_time,
     entry_curve_progress_pct |-> row.entry_curve_progress_pct,
     entry_liquidity_sol |-> row.entry_liquidity_sol,
     entry_market_cap_sol |->
         IF IsSet(row.entry_market_cap_sol) THEN row.entry_market_cap_sol ELSE None,
     entry_price_sol |->
         IF IsSet(row.entry_price_sol) THEN row.entry_price_sol ELSE None,
     simulated_buy_sol |-> row.simulated_buy_sol,
     status |-> row.status,
     outcome |-> row.outcome_json,
     created_at |-> row.created_at,
     updated_at |-> row.updated_at]

\* Mutant: INSERT OR IGNORE, a stored record is kept.
save_or_ignore(rows, s) ==
    [i \in (DOMAIN rows) \cup {s.id} |->
        IF i \in DOMAIN rows THEN rows[i] ELSE SignalToRow(s)]

\* SignalStorage.save: INSERT OR REPLACE keyed by id.
save(rows, s) ==
    [i \in (DOMAIN rows) \cup {s.id} |->
        IF i = s.id THEN SignalToRow(s) ELSE rows[i]]

RECURSIVE save_all(_, _)
save_all(rows, ss) ==
    IF ss = <<>> THEN rows ELSE save_all(save(rows, Head(ss)), Tail(ss))

\* Every enumeration of the finite set S.
Enumerations(S) ==
    {q \in [1..Cardinality(S) -> S] : \A i, j \in DOMAIN q : i /= j => q[i] /= q[j]}

\* SignalStorage.get_by_token: ORDER BY signal_time DESC; rows with equal
\* signal_time come in any order.
get_by_token(rows, token_address) ==
    LET ids == {i \in DOMAIN rows : rows[i].token_address = token_address}
        sorted == {q \in Enumerations(ids) :
                     \A i \in 1..(Len(q) - 1) :
                        rows[q[i]].signal_time >= rows[q[i + 1]].signal_time}
    IN  {[k \in DOMAIN q |-> RowToSignal(rows[q[k]])] : q \in sorted}

\* SignalStorage.get_pending: WHERE status = 'pending' ORDER BY signal_time ASC
\* LIMIT limit.
get_pending(rows, limit) ==
    LET ids == {i \in DOMAIN rows : rows[i].status = PENDING}
        sorted == {q \in Enumerations(ids) :
                     \A i \in 1..(Len(q) - 1) :
                        rows[q[i]].signal_time <= rows[q[i + 1]].signal_time}
        Cut(q) == SubSeq(q, 1, IF Len(q) < limit THEN Len(q) ELSE limit)
    IN  {[k \in DOMAIN Cut(q) |-> RowToSignal(rows[q[k]])] : q \in sorted}

\* SignalStorage.get
get(rows, signal_id) ==
    IF signal_id \in DOMAIN rows THEN Some(RowToSignal(rows[signal_id])) ELSE None

RAdd(a, b) == RSub(a, RNeg(b))

RLeq(a, b) == ~RPos(RSub(a, b))

RECURSIVE RSum(_, _)
RSum(S, f) ==
    IF S = {} THEN RZero
    ELSE LET x == CHOOSE y \in S : TRUE IN RAdd(f[x], RSum(S \ {x}, f))

\* The PnL aggregates of get_stats over the rows `completed` of `rows`.
pnl_stats(rows, completed) ==
    LET pct == [i \in completed |-> Val(rows[i].outcome_json.simulated_pnl_pct)]
        total == Cardinality(completed)
        winners == Cardinality({i \in completed : RPos(pct[i])})
        losers == Cardinality({i \in completed : ~RPos(pct[i])})
    IN  [total_completed |-> total,
         avg_pnl_pct |-> IF total = 0 THEN None
                         ELSE Some(RDiv(RSum(completed, pct), RInt(total))),
         min_pnl_pct |-> IF total = 0 THEN None
                         ELSE Some(CHOOSE m \in {pct[i] : i \in completed} :
                                      \A i \in completed : RLeq(m, pct[i])),
         max_pnl_pct |-> IF total = 0 THEN None
                         ELSE Some(CHOOSE m \in {pct[i] : i \in completed} :
                                      \A i \in completed : RLeq(pct[i], m)),
         winners |-> winners,
         losers |-> losers,
         win_rate |-> IF total = 0 THEN None ELSE Some(R(winners * 100, total))]

by_status(rows) ==
    [st \in {rows[i].status : i \in DOMAIN rows} |->
        Cardinality({i \in DOMAIN rows : rows[i].status = st})]

\* Mutant: the PnL summary is taken over every signal with a PnL.
get_stats_any_status(rows) ==
    [by_status |-> by_status(rows),
     pnl |-> pnl_stats(rows, {i \in DOMAIN rows :
                                 IsSet(rows[i].outcome_json.simulated_pnl_pct)})]

\* SignalStorage.get_stats: GROUP BY status, and the aggregates WHERE status =
\* 'migrated' AND json_extract(outcome_json, '$.simulated_pnl_pct') IS NOT NULL.
get_stats(rows) ==
    [by_status |-> by_status(rows),
     pnl |-> pnl_stats(rows, {i \in DOMAIN rows :
                                 /\ rows[i].status = MIGRATED
                                 /\ IsSet(rows[i].outcome_json.simulated_pnl_pct)})]

-----------------------------------------------------------------------------
(* src/signals/generator.py *)

\* Mutant: the curve progress is checked before the liquidity.
check_filters_progress_first(e) ==
    IF e.curve_progress_pct < min_curve_progress_pct
    THEN Some("curve_progress_too_low")
    ELSE IF e.curve_progress_pct > max_curve_progress_pct
         THEN Some("curve_progress_too_high")
    ELSE IF e.liquidity_sol < min_liquidity_sol THEN Some("liquidity_too_low")
    ELSE None

\* SignalGenerator._check_filters: the rejection reason, or None.
check_filters(e) ==
    IF e.liquidity_sol < min_liquidity_sol THEN Some("liquidity_too_low")
    ELSE IF e.curve_progress_pct < min_curve_progress_pct
         THEN Some("curve_progress_too_low")
    ELSE IF e.curve_progress_pct > max_curve_progress_pct
         THEN Some("curve_progress_too_high")
    ELSE None

\* Mutant: the market cap is preferred to the unit price.
estimate_price_market_cap_first(e) ==
    IF Truthy(market_cap_sol(e)) /\ RPos(Val(market_cap_sol(e)))
    THEN Some(RDiv(DecimalOfFloat(Val(market_cap_sol(e))), RInt(total_supply)))
    ELSE IF Truthy(token_price_sol(e)) /\ RPos(Val(token_price_sol(e)))
    THEN Some(DecimalOfFloat(Val(token_price_sol(e))))
    ELSE None

\* SignalGenerator._estimate_price
estimate_price(e) ==
    IF Truthy(token_price_sol(e)) /\ RPos(Val(token_price_sol(e)))
    THEN Some(DecimalOfFloat(Val(token_price_sol(e))))
    ELSE IF Truthy(market_cap_sol(e)) /\ RPos(Val(market_cap_sol(e)))
    THEN Some(RDiv(DecimalOfFloat(Val(market_cap_sol(e))), RInt(total_supply)))
    ELSE None

\* The Signal that evaluate_curve_progress constructs (lines 55-68).
CurveSignal(e, id, t) ==
    [id |-> id,
     token_address |-> e.token_address,
     trigger_tx_signature |-> e.tx_signature,
     signal_time |-> e.timestamp,
     entry_curve_progress_pct |-> e.curve_progress_pct,
     entry_liquidity_sol |-> RInt(e.liquidity_sol),
     entry_market_cap_sol |->
         IF Truthy(market_cap_sol(e))
         THEN Some(DecimalOfFloat(Val(market_cap_sol(e)))) ELSE None,
     entry_price_sol |-> estimate_price(e),
     simulated_buy_sol |-> simulated_buy_sol,
     status |-> PENDING,
     outcome |-> SignalOutcome,
     created_at |-> t,
     updated_at |-> t]

\* Mutant: the Signal is built with its simulated entry already recorded.
CreatedSignalWithEntry(e, id, t) ==
    [id |-> id,
     token_address |-> e.token_address,
     trigger_tx_signature |-> e.tx_signature,
     signal_time |-> e.timestamp,
     entry_curve_progress_pct |-> 0,
     entry_liquidity_sol |-> RInt(e.initial_liquidity_sol),
     entry_market_cap_sol |-> None,
     entry_price_sol |-> None,
     simulated_buy_sol |-> simulated_buy_sol,
     status |-> PENDING,
     outcome |-> [SignalOutcome EXCEPT !.simulated_entry_sol = Some(simulated_buy_sol)],
     created_at |-> t,
     updated_at |-> t]

\* The Signal that evaluate_token_created constructs (lines 109-121).
CreatedSignal(e, id, t) ==
    [id |-> id,
     token_address |-> e.token_address,
     trigger_tx_signature |-> e.tx_signature,
     signal_time |-> e.timestamp,
     entry_curve_progress_pct |-> 0,
     entry_liquidity_sol |-> RInt(e.initial_liquidity_sol),
     entry_market_cap_sol |-> None,
     entry_price_sol |-> None,
     simulated_buy_sol |-> simulated_buy_sol,
     status |-> PENDING,
     outcome |-> SignalOutcome,
     created_at |-> t,
     updated_at |-> t]

\* Mutant: a token counts as signaled only while one of its signals is Pending.
already_signaled_while_pending(token) ==
    /\ token \in signaled_tokens
    /\ \E i \in DOMAIN db : db[i].token_address = token /\ db[i].status = PENDING

\* `token in self._signaled_tokens`
already_signaled(token) == token \in signaled_tokens

\* Mutant: the token is not recorded after the save.
mark_signaled_forgotten(tokens, token) == tokens

\* `self._signaled_tokens.add(token)`
mark_signaled(tokens, token) == tokens \cup {token}

\* Mutant: a skipped or rejected token is recorded as signaled.
signaled_after_skip_marked(tokens, token) == tokens \cup {token}

\* The signaled set after `return None` at a duplicate or a rejection (lines
\* 44-52, 98-107): nothing was added.
signaled_after_skip(tokens, token) == tokens

\* Mutant: the token is recorded before the save is attempted.
signaled_after_failed_save_marked(tokens, token) == tokens \cup {token}

\* The signaled set after storage.save raised (lines 71-72, 123-124): the
\* exception leaves the method before `_signaled_tokens.add(token)`.
signaled_after_failed_save(tokens, token) == tokens

Bump(f, k) == [f EXCEPT ![k] = @ + 1]

\* The shared tail of both evaluate_* methods: skip a signaled token, reject,
\* or build the Signal, save it (storage.save may raise) and mark the token.
Evaluate(op, e, rejection, sig) ==
    /\ now' = now
    /\ UNCHANGED otherVars
    /\ IF already_signaled(e.token_address)
       THEN /\ signaled_tokens' = signaled_after_skip(signaled_tokens, e.token_address)
            /\ UNCHANGED <<db, uuid_next, created>>
            /\ lastOp' = [op |-> op, ret |-> None,
                          why |-> "duplicate", writes |-> <<>>]
       ELSE IF IsSet(rejection)
       THEN /\ signaled_tokens' = signaled_after_skip(signaled_tokens, e.token_address)
            /\ UNCHANGED <<db, uuid_next, created>>
            /\ lastOp' = [op |-> op, ret |-> None,
                          why |-> Val(rejection), writes |-> <<>>]
       ELSE /\ uuid_next <= MaxSignals
            /\ \/ /\ db' = save(db, sig)
                  /\ uuid_next' = uuid_next + 1
                  /\ signaled_tokens' = mark_signaled(signaled_tokens, e.token_address)
                  /\ created' = Bump(created, e.token_address)
                  /\ lastOp' = [op |-> op, ret |-> Some(sig.id),
                                why |-> "created", writes |-> <<sig.id>>]
               \/ /\ signaled_tokens' =
                         signaled_after_failed_save(signaled_tokens, e.token_address)
                  /\ UNCHANGED <<db, uuid_next, created>>
                  /\ lastOp' = [op |-> op, ret |-> None,
                                why |-> "save_raised", writes |-> <<>>]

\* SignalGenerator.evaluate_curve_progress
EvaluateCurveProgress(e) ==
    Evaluate("evaluate_curve_progress", e, check_filters(e),
             CurveSignal(e, uuid_next, now))

\* SignalGenerator.evaluate_token_created
EvaluateTokenCreated(e) ==
    Evaluate("evaluate_token_created", e,
             IF e.initial_liquidity_sol < min_liquidity_sol
             THEN Some("insufficient_initial_liquidity") ELSE None,
             CreatedSignal(e, uuid_next, now))

\* SignalGenerator.clear_signaled_tokens
ClearSignaledTokens ==
    /\ signaled_tokens' = {}
    /\ created' = [t \in Tokens |-> 0]
    /\ lastOp' = [op |-> "clear_signaled_tokens", ret |-> None,
                  why |-> "", writes |-> <<>>]
    /\ UNCHANGED <<db, now, uuid_next>>
    /\ UNCHANGED otherVars

-----------------------------------------------------------------------------
(* src/signals/tracker.py *)

IsPending(s) == s.status = PENDING
NotMigrated(s) == s.status /= MIGRATED
PendingOrExpired(s) == s.status \in {PENDING, EXPIRED}

\* Mutant: every signal that has not migrated counts as open.
pending_of_not_migrated(signals) == SelectSeq(signals, NotMigrated)

\* Mutant: an expired signal still counts as open.
pending_of_or_expired(signals) == SelectSeq(signals, PendingOrExpired)

\* `[s for s in signals if s.status == SignalStatus.PENDING]`
pending_of(signals) == SelectSeq(signals, IsPending)

\* Mutant: the final liquidity itself is taken as the price.
estimate_migration_price_unscaled(e) ==
    IF ~RIsZero(e.final_liquidity_sol) /\ RPos(e.final_liquidity_sol)
    THEN Some(DecimalOfFloat(e.final_liquidity_sol))
    ELSE None

\* OutcomeTracker._estimate_migration_price
estimate_migration_price(e) ==
    IF ~RIsZero(e.final_liquidity_sol) /\ RPos(e.final_liquidity_sol)
    THEN Some(RDiv(DecimalOfFloat(e.final_liquidity_sol), RInt(total_supply)))
    ELSE None

\* OutcomeTracker._estimate_price_from_curve
estimate_price_from_curve(e) ==
    IF Truthy(market_cap_sol(e)) /\ RPos(Val(market_cap_sol(e)))
    THEN Some(RDiv(DecimalOfFloat(Val(market_cap_sol(e))), RInt(total_supply)))
    ELSE None

\* Mutant: updated_at is taken from the event instead of the clock.
migrate_backdated(signal, e, t) ==
    LET s1 == [signal EXCEPT
                  !.status = MIGRATED,
                  !.outcome.migrated = TRUE,
                  !.outcome.migration_time = Some(e.timestamp),
                  !.outcome.price_at_migration =
                      Some(DecimalOfFloat(e.final_liquidity_sol)),
                  !.updated_at = e.timestamp]
        exit_price == estimate_migration_price(e)
    IN  IF Truthy(s1.entry_price_sol) /\ Truthy(exit_price)
        THEN [calculate_simulated_pnl(s1, Val(exit_price), t)
                 EXCEPT !.updated_at = e.timestamp]
        ELSE s1

\* handle_migration, lines 41-54: what it does to the signal it selected.
migrate(signal, e, t) ==
    LET s1 == [signal EXCEPT
                  !.status = MIGRATED,
                  !.outcome.migrated = TRUE,
                  !.outcome.migration_time = Some(e.timestamp),
                  !.outcome.price_at_migration =
                      Some(DecimalOfFloat(e.final_liquidity_sol)),
                  !.updated_at = t]
        exit_price == estimate_migration_price(e)
    IN  IF Truthy(s1.entry_price_sol) /\ Truthy(exit_price)
        THEN calculate_simulated_pnl(s1, Val(exit_price), t)
        ELSE s1

\* Mutant: the oldest pending signal is taken instead of the newest.
select_migrating_oldest(pending_signals) == pending_signals[Len(pending_signals)]

\* handle_migration, line 41: the signal the migration is applied to.
select_migrating(pending_signals) == pending_signals[1]

\* handle_curve_update, lines 84-87: whether a pending signal is updated, and to what.
curve_updates(signal, current_price) ==
    Truthy(current_price) /\ Truthy(signal.entry_price_sol)

\* Mutant: the curve update also moves the entry price to the current price.
curve_update_rebases_entry(signal, current_price, t) ==
    [calculate_simulated_pnl(signal, Val(current_price), t)
        EXCEPT !.updated_at = t, !.entry_price_sol = current_price]

curve_update(signal, current_price, t) ==
    [calculate_simulated_pnl(signal, Val(current_price), t) EXCEPT !.updated_at = t]

\* Mutant: a signal exactly at the cutoff expires too.
expires_at_cutoff(signal, cutoff) == signal.signal_time <= cutoff

\* expire_old_signals, lines 109-111
expires(signal, cutoff) == signal.signal_time < cutoff

\* Mutant: expiry starts the Outcome afresh.
expire_resets_outcome(signal, t) ==
    [signal EXCEPT !.status = EXPIRED, !.updated_at = t, !.outcome = SignalOutcome]

expire(signal, t) == [signal EXCEPT !.status = EXPIRED, !.updated_at = t]

\* Mutant: the status is set but the PnL is not forced.
fail_keeps_pnl(signal, t) == [signal EXCEPT !.status = FAILED, !.updated_at = t]

\* mark_failed, lines 136-140
fail(signal, t) ==
    [signal EXCEPT
        !.status = FAILED,
        !.updated_at = t,
        !.outcome.simulated_pnl_pct = Some(RInt(-100)),
        !.outcome.simulated_pnl_sol = Some(RNeg(signal.simulated_buy_sol))]

Ids(ss) == [k \in DOMAIN ss |-> ss[k].id]

\* OutcomeTracker.handle_migration
HandleMigration(e) ==
    \E signals \in get_by_token(db, e.token_address) :
        LET pending_signals == pending_of(signals)
        IN  /\ IF pending_signals = <<>>
               THEN /\ db' = db
                    /\ lastOp' = [op |-> "handle_migration", ret |-> None,
                                  why |-> "", writes |-> <<>>]
               ELSE LET signal == migrate(select_migrating(pending_signals), e, now)
                    IN  /\ db' = save(db, signal)
                        /\ lastOp' = [op |-> "handle_migration", ret |-> Some(signal.id), why |-> "",
                                      writes |-> <<signal.id>>]
            /\ UNCHANGED <<signaled_tokens, now, uuid_next, created>>
            /\ UNCHANGED otherVars

\* OutcomeTracker.handle_curve_update
HandleCurveUpdate(e) ==
    \E signals \in get_by_token(db, e.token_address) :
        LET pending_signals == pending_of(signals)
            current_price == estimate_price_from_curve(e)
            Updates(s) == curve_updates(s, current_price)
            hit == SelectSeq(pending_signals, Updates)
            updated == [k \in DOMAIN hit |-> curve_update(hit[k], current_price, now)]
        IN  /\ db' = save_all(db, updated)
            /\ lastOp' = [op |-> "handle_curve_update", ret |-> Ids(updated),
                          why |-> "", writes |-> Ids(updated)]
            /\ UNCHANGED <<signaled_tokens, now, uuid_next, created>>
            /\ UNCHANGED otherVars

\* OutcomeTracker.expire_old_signals
ExpireOldSignals ==
    \E pending \in get_pending(db, pending_limit) :
        LET cutoff == now - expiry_hours
            Old(s) == expires(s, cutoff)
            hit == SelectSeq(pending, Old)
            expired == [k \in DOMAIN hit |-> expire(hit[k], now)]
        IN  /\ db' = save_all(db, expired)
            /\ lastOp' = [op |-> "expire_old_signals", ret |-> Len(expired), why |-> "", writes |-> Ids(expired)]
            /\ UNCHANGED <<signaled_tokens, now, uuid_next, created>>
            /\ UNCHANGED otherVars

\* OutcomeTracker.mark_failed
MarkFailed(token_address) ==
    \E signals \in get_by_token(db, token_address) :
        LET pending_signals == pending_of(signals)
            failed == [k \in DOMAIN pending_signals |-> fail(pending_signals[k], now)]
        IN  /\ db' = save_all(db, failed)
            /\ lastOp' = [op |-> "mark_failed", ret |-> Ids(failed), why |-> "", writes |-> Ids(failed)]
            /\ UNCHANGED <<signaled_tokens, now, uuid_next, created>>
            /\ UNCHANGED otherVars

\* Time passes between two calls.
Tick ==
    /\ now < MaxTime
    /\ now' = now + 1
    /\ UNCHANGED <<db, signaled_tokens, uuid_next, lastOp, created>>
    /\ UNCHANGED otherVars

-----------------------------------------------------------------------------
(* The generator and the tracker called from several threads.  Each call of  *)
(* SignalStorage opens its own connection and commits, so a storage call is  *)
(* one step; nothing else in generator.py or tracker.py is guarded by a lock *)
(* or a transaction, so a thread can be preempted between two storage calls  *)
(* and between a storage call and the update of _signaled_tokens.            *)

\* A thread's frame: the call it is in, the signals it has still to save
\* (built from what it read) and the token it has still to mark as signaled.
Idle == [op |-> "idle", writes |-> <<>>, mark |-> None]

IsIdle(th) == threads[th] = Idle

ThreadIds == 1..MaxThreads

\* The events the threads are driven with: qualifying, priced, one token.
ThreadCurveEvents(t) ==
    {e \in CurveProgressEvents(t) :
        /\ e.token_address = "tokA"
        /\ e.liquidity_sol = 10
        /\ IsSet(token_price_sol(e))}

ThreadMigrationEvents(t) ==
    {e \in MigrationEvents(t) : e.token_address = "tokA" /\ e.timestamp = t}

\* evaluate_curve_progress up to the Signal's construction (lines 43-68).
ThreadEvaluate(th, e) ==
    /\ IsIdle(th)
    /\ ~already_signaled(e.token_address)
    /\ ~IsSet(check_filters(e))
    /\ uuid_next <= MaxSignals
    /\ uuid_next' = uuid_next + 1
    /\ threads' = [threads EXCEPT ![th] =
                      [op |-> "evaluate_curve_progress",
                       writes |-> <<CurveSignal(e, uuid_next, now)>>,
                       mark |-> Some(e.token_address)]]
    /\ UNCHANGED <<db, signaled_tokens, now, lastOp, created>>
    /\ UNCHANGED <<webhookVars, call, touched>>

\* handle_migration up to the update of the selected signal (lines 33-54).
ThreadMigration(th, e) ==
    /\ IsIdle(th)
    /\ \E signals \in get_by_token(db, e.token_address) :
          LET pending_signals == pending_of(signals)
          IN  /\ pending_signals /= <<>>
              /\ threads' = [threads EXCEPT ![th] =
                    [op |-> "handle_migration",
                     writes |-> <<migrate(select_migrating(pending_signals), e, now)>>,
                     mark |-> None]]
    /\ UNCHANGED signalVars
    /\ UNCHANGED <<webhookVars, call, touched>>

\* handle_curve_update: the read and the updates it computes (lines 74-87).
ThreadCurveUpdate(th, e) ==
    /\ IsIdle(th)
    /\ \E signals \in get_by_token(db, e.token_address) :
          LET pending_signals == pending_of(signals)
              current_price == estimate_price_from_curve(e)
              Updates(s) == curve_updates(s, current_price)
              hit == SelectSeq(pending_signals, Updates)
              updated == [k \in DOMAIN hit |-> curve_update(hit[k], current_price, now)]
          IN  /\ updated /= <<>>
              /\ threads' = [threads EXCEPT ![th] =
                    [op |-> "handle_curve_update", writes |-> updated, mark |-> None]]
    /\ UNCHANGED signalVars
    /\ UNCHANGED <<webhookVars, call, touched>>

\* expire_old_signals: the read and the signals it decides to expire.
ThreadExpire(th) ==
    /\ IsIdle(th)
    /\ \E pending \in get_pending(db, pending_limit) :
          LET cutoff == now - expiry_hours
              Old(s) == expires(s, cutoff)
              hit == SelectSeq(pending, Old)
              expired == [k \in DOMAIN hit |-> expire(hit[k], now)]
          IN  /\ expired /= <<>>
              /\ threads' = [threads EXCEPT ![th] =
                    [op |-> "expire_old_signals", writes |-> expired, mark |-> None]]
    /\ UNCHANGED signalVars
    /\ UNCHANGED <<webhookVars, call, touched>>

\* mark_failed: the read and the signals it decides to fail.
ThreadMarkFailed(th, token_address) ==
    /\ IsIdle(th)
    /\ \E signals \in get_by_token(db, token_address) :
          LET pending_signals == pending_of(signals)
              failed == [k \in DOMAIN pending_signals |-> fail(pending_signals[k], now)]
          IN  /\ failed /= <<>>
              /\ threads' = [threads EXCEPT ![th] =
                    [op |-> "mark_failed", writes |-> failed, mark |-> None]]
    /\ UNCHANGED signalVars
    /\ UNCHANGED <<webhookVars, call, touched>>

\* The next self.storage.save(signal) of the call a thread is in.
ThreadSave(th) ==
    /\ threads[th].writes /= <<>>
    /\ db' = save(db, Head(threads[th].writes))
    /\ threads' = [threads EXCEPT ![th].writes = Tail(@)]
    /\ UNCHANGED <<signaled_tokens, now, uuid_next, lastOp, created>>
    /\ UNCHANGED <<webhookVars, call, touched>>

\* self._signaled_tokens.add(token), after the save (line 72).
ThreadMarkSignaled(th) ==
    /\ threads[th].writes = <<>>
    /\ IsSet(threads[th].mark)
    /\ signaled_tokens' = mark_signaled(signaled_tokens, Val(threads[th].mark))
    /\ threads' = [threads EXCEPT ![th] = Idle]
    /\ UNCHANGED <<db, now, uuid_next, lastOp, created>>
    /\ UNCHANGED <<webhookVars, call, touched>>

\* A tracker call returns once its last signal is saved.
ThreadReturn(th) ==
    /\ threads[th].op /= "idle"
    /\ threads[th].writes = <<>>
    /\ ~IsSet(threads[th].mark)
    /\ threads' = [threads EXCEPT ![th] = Idle]
    /\ UNCHANGED signalVars
    /\ UNCHANGED <<webhookVars, call, touched>>

-----------------------------------------------------------------------------
(* src/webhook/idempotency.py: the keys of IdempotencyStore._store, oldest   *)
(* first (every value the handler stores is True)                            *)

\* max_size=10000 of WebhookHandler.seen_signatures, scaled to the model's
\* signatures.
max_size == 2

HasKey(store, key) == \E k \in DOMAIN store : store[k] = key

\* OrderedDict.move_to_end(key)
move_to_end(store, key) ==
    LET Other(x) == x /= key
    IN  Append(SelectSeq(store, Other), key)

\* Mutant: a found key is not moved to the end.
contains_without_refresh(store, key) ==
    [ret |-> HasKey(store, key), store |-> store]

\* Mutant: only the most recently touched key is found.
contains_newest_only(store, key) ==
    [ret |-> store /= <<>> /\ store[Len(store)] = key, store |-> store]

\* IdempotencyStore.contains: the answer and the store it leaves.
contains(store, key) ==
    IF HasKey(store, key)
    THEN [ret |-> TRUE, store |-> move_to_end(store, key)]
    ELSE [ret |-> FALSE, store |-> store]

\* Mutant: evicted keys are kept.
evict_nothing(store) == store

\* `while len(self._store) > self._max_size: self._store.popitem(last=False)`
RECURSIVE evict(_)
evict(store) == IF Len(store) > max_size THEN evict(Tail(store)) ELSE store

\* Mutant: the key is not stored.
add_dropped(store, key) == store

\* IdempotencyStore.add
add(store, key) ==
    IF HasKey(store, key) THEN move_to_end(store, key)
    ELSE evict(Append(store, key))

-----------------------------------------------------------------------------
(* src/webhook/server.py *)

PUMP_FUN == "PUMP_FUN"

pool_programs ==
    {"675kPX9MHTjS2zt1qfr1NYHuzeLXfQM9H24wFSUt1Mp8",
     "CAMMCzo5YL8w4VFF8KVHrK22GGUsp5VTaW7grrKgrWqK",
     "pSwpGyAJiLMTUidSTPXhNFyJz3aLH41mGqhW3s1hkLd"}

common_tokens ==
    {"So11111111111111111111111111111111111111112",
     "EPjFWdd5AufqSSqeM2qN1xzybapC8G4wEGGkZwyTDt1v",
     "Es9vMFrzaCERmJfrF4H2FYD4KCoNkY11McCe8BenwNYB"}

\* Mutant: only wrapped SOL is skipped.
is_common_token_sol_only(mint) == mint = "So11111111111111111111111111111111111111112"

\* MigrationParser._is_common_token
is_common_token(mint) == mint \in common_tokens

\* A JSON value in a list of objects that is not an object (a string, null).
NotAnObject == "<not an object>"

\* The transactions delivered.  A signature identifies its transaction, so
\* every delivery of a signature carries the same content.  tokenTransfers
\* holds each transfer's mint, accountData each account's tokenBalanceChanges
\* mints, accountKeys the public keys, instructions each programId, or
\* NotAnObject for an element of the JSON list that is not an object.
Transactions ==
    {[signature |-> "sig1", source |-> PUMP_FUN,
      tokenTransfers |-> <<"So11111111111111111111111111111111111111112", "mintA">>,
      accountData |-> <<>>, accountKeys |-> <<>>, instructions |-> <<>>],
     [signature |-> "sig2", source |-> "RAYDIUM",
      tokenTransfers |-> <<"mintA">>,
      accountData |-> <<>>, accountKeys |-> <<>>, instructions |-> <<>>],
     [signature |-> "sig3", source |-> PUMP_FUN,
      tokenTransfers |-> <<>>,
      accountData |-> <<<<"mintB">>>>,
      accountKeys |-> <<"675kPX9MHTjS2zt1qfr1NYHuzeLXfQM9H24wFSUt1Mp8">>,
      instructions |-> <<>>],
     [signature |-> "sig4", source |-> PUMP_FUN,
      tokenTransfers |-> <<"mintC">>,
      accountData |-> <<>>, accountKeys |-> <<>>,
      instructions |-> <<NotAnObject>>]}

\* HeliusWebhookPayload.transactions
Batches == UNION {[1..n -> Transactions] : n \in 0..MaxBatch}

Flatten(ss) ==
    LET RECURSIVE flat(_)
        flat(q) == IF q = <<>> THEN <<>> ELSE Head(q) \o flat(Tail(q))
    IN  flat(ss)

\* MigrationParser._extract_token_mint
extract_token_mint(tx) ==
    LET Candidate(mint) == mint /= "" /\ ~is_common_token(mint)
        transfers == SelectSeq(tx.tokenTransfers, Candidate)
        changes == SelectSeq(Flatten(tx.accountData), Candidate)
    IN  IF transfers /= <<>> THEN Some(transfers[1])
        ELSE IF changes /= <<>> THEN Some(changes[1])
        ELSE None

\* MigrationParser._is_migration
is_migration(tx) ==
    \/ \E k \in DOMAIN tx.accountKeys : tx.accountKeys[k] \in pool_programs
    \/ \E k \in DOMAIN tx.instructions : tx.instructions[k] \in pool_programs
    \/ Len(tx.tokenTransfers) >= 2

\* _is_migration raises AttributeError at `inst.get("programId", "")` when the
\* loop over the instructions reaches an element that is not an object.
is_migration_raises(tx) ==
    /\ \A k \in DOMAIN tx.accountKeys : tx.accountKeys[k] \notin pool_programs
    /\ \E k \in DOMAIN tx.instructions :
          /\ tx.instructions[k] = NotAnObject
          /\ \A j \in 1..(k - 1) : tx.instructions[j] \notin pool_programs

\* MigrationParser.parse: the migration's (tx_signature, token_mint), or None,
\* or the exception of _is_migration.
parse(tx) ==
    IF tx.source /= PUMP_FUN THEN Returns(None)
    ELSE LET token_mint == extract_token_mint(tx)
         IN  IF ~IsSet(token_mint) THEN Returns(None)
             ELSE IF is_migration_raises(tx) THEN Raises
             ELSE IF ~is_migration(tx) THEN Returns(None)
             ELSE Returns(Some([tx_signature |-> tx.signature,
                                token_mint |-> Val(token_mint)]))

\* handle()'s frame at its first line.
NewRequest(transactions) ==
    [transactions |-> transactions, i |-> 1, pc |-> "loop",
     processed |-> 0, duplicates |-> 0,
     migrations_detected |-> 0, signals_generated |-> 0]

Delivery(r, sig, verdict, classified) ==
    [request |-> r, sig |-> sig, verdict |-> verdict, classified |-> classified]

\* Mutant: only a Pump.fun transaction is counted as processed.
count_processed_if_pump_fun(f, tx) ==
    IF tx.source = PUMP_FUN THEN [f EXCEPT !.processed = @ + 1] ELSE f

\* `processed += 1` (line 158), for the transaction tx.
count_processed(f, tx) == [f EXCEPT !.processed = @ + 1]

\* The loop of handle() (lines 147-175) from transaction f.i on, run until it
\* suspends in `await self._process_migration(migration)`, returns, or is
\* left by an exception (pc "raised": nothing in handle() catches it, the
\* endpoint answers 500).  The coroutine is not suspended anywhere else, so all
\* of this is one step of the event loop.
RECURSIVE run(_, _, _, _)
run(r, f, store, log) ==
    IF f.i > Len(f.transactions)
    THEN [frame |-> [f EXCEPT !.pc = "done"], store |-> store, log |-> log]
    ELSE LET tx == f.transactions[f.i]
             sig == tx.signature
             seen == contains(store, sig)
         IN  IF seen.ret
             THEN run(r, [f EXCEPT !.duplicates = @ + 1, !.i = @ + 1], seen.store,
                      Append(log, Delivery(r, sig, "duplicate", FALSE)))
             ELSE LET marked == add(seen.store, sig)
                      counted == count_processed(f, tx)
                      logged == Append(log, Delivery(r, sig, "processed", TRUE))
                  IN  IF parse(tx).raises
                      THEN [frame |-> [counted EXCEPT !.pc = "raised"],
                            store |-> marked, log |-> logged]
                      ELSE IF ~IsSet(parse(tx).value)
                      THEN run(r, [counted EXCEPT !.i = @ + 1], marked, logged)
                      ELSE [frame |-> [counted EXCEPT !.migrations_detected = @ + 1,
                                                      !.pc = "await"],
                            store |-> marked, log |-> logged]

\* A webhook request arrives: handle(payload) runs to its first suspension.
Handle(transactions) ==
    /\ Len(requests) < MaxRequests
    /\ LET r == Len(requests) + 1
           out == run(r, NewRequest(transactions), seen_signatures, deliveries)
       IN  /\ requests' = Append(requests, out.frame)
           /\ seen_signatures' = out.store
           /\ deliveries' = out.log
    /\ UNCHANGED signalVars
    /\ UNCHANGED <<threads, call, touched>>

\* _process_migration returns to a suspended handle(): a signal if Dexscreener
\* has a pair that passes the filters, None otherwise; the loop goes on.
Resume(r, signal) ==
    /\ requests[r].pc = "await"
    /\ LET f == [requests[r] EXCEPT
                    !.signals_generated = IF signal THEN @ + 1 ELSE @,
                    !.i = @ + 1,
                    !.pc = "loop"]
           out == run(r, f, seen_signatures, deliveries)
       IN  /\ requests' = [requests EXCEPT ![r] = out.frame]
           /\ seen_signatures' = out.store
           /\ deliveries' = out.log
    /\ UNCHANGED signalVars
    /\ UNCHANGED <<threads, call, touched>>

-----------------------------------------------------------------------------
(* One generator and one tracker over one store, calls made one at a time *)

NoOp == [op |-> "init", ret |-> None, why |-> "", writes |-> <<>>]

InitSignals ==
    /\ db = <<>>
    /\ signaled_tokens = {}
    /\ now = 0
    /\ uuid_next = 1
    /\ lastOp = NoOp
    /\ created = [t \in Tokens |-> 0]

InitThreads == threads = [th \in ThreadIds |-> Idle]

InitWebhook ==
    /\ seen_signatures = <<>>
    /\ requests = <<>>
    /\ deliveries = <<>>

NoCall == [fn |-> "none", args |-> <<>>, ret |-> None]

InitCall == call = NoCall /\ touched = <<>>

Init == InitSignals /\ InitThreads /\ InitWebhook /\ InitCall

Next ==
    \/ \E e \in CurveProgressEvents(now) : EvaluateCurveProgress(e)
    \/ \E e \in TokenCreatedEvents(now) : EvaluateTokenCreated(e)
    \/ ClearSignaledTokens
    \/ \E e \in MigrationEvents(now) : HandleMigration(e)
    \/ \E e \in CurveUpdateEvents(now) : HandleCurveUpdate(e)
    \/ ExpireOldSignals
    \/ \E token \in Tokens : MarkFailed(token)
    \/ Tick

Spec == Init /\ [][Next]_vars

-----------------------------------------------------------------------------
(* One generator that is never reset and one tracker over one store *)

NextNoReset ==
    \/ \E e \in CurveProgressEvents(now) : EvaluateCurveProgress(e)
    \/ \E e \in TokenCreatedEvents(now) : EvaluateTokenCreated(e)
    \/ \E e \in MigrationEvents(now) : HandleMigration(e)
    \/ \E e \in CurveUpdateEvents(now) : HandleCurveUpdate(e)
    \/ ExpireOldSignals
    \/ \E token \in Tokens : MarkFailed(token)
    \/ Tick

SpecNoReset == Init /\ [][NextNoReset]_vars

-----------------------------------------------------------------------------
(* The end-to-end scenario: swap events priced from the traded and the native *)
(* amount, then a migration of the same token                                 *)

\* parser.py lines 209-214: token_price = main_sol_amount / token_amount and
\* market_cap = token_price * 1_000_000_000, when both amounts are positive.
swap_price(main_sol_amount, token_amount) ==
    IF RPos(token_amount) /\ RPos(main_sol_amount)
    THEN LET token_price == RDiv(main_sol_amount, token_amount)
         IN  <<Some(token_price), Some(RMul(token_price, RInt(total_supply)))>>
    ELSE <<None, None>>

ScenarioCurveEvents(t) ==
    [token_address : Tokens,
     tx_signature : TxSignatures,
     timestamp : {t},
     curve_progress_pct : {50, 150},
     liquidity_sol : {1, 10},
     price : {swap_price(RInt(1), RInt(1000))}]

ScenarioMigrationEvents(t) ==
    [token_address : Tokens,
     timestamp : {t},
     final_liquidity_sol : {RInt(20)}]

NextScenario ==
    \/ \E e \in ScenarioCurveEvents(now) : EvaluateCurveProgress(e)
    \/ \E e \in ScenarioMigrationEvents(now) : HandleMigration(e)
    \/ ClearSignaledTokens
    \/ Tick

SpecScenario == Init /\ [][NextScenario]_vars

-----------------------------------------------------------------------------
(* One generator and one tracker over one store, called from several threads *)

NextThreads ==
    \/ \E th \in ThreadIds : \E e \in ThreadCurveEvents(now) : ThreadEvaluate(th, e)
    \/ \E th \in ThreadIds : \E e \in ThreadMigrationEvents(now) : ThreadMigration(th, e)
    \/ \E th \in ThreadIds : \E e \in ThreadCurveEvents(now) : ThreadCurveUpdate(th, e)
    \/ \E th \in ThreadIds : ThreadExpire(th)
    \/ \E th \in ThreadIds : ThreadMarkFailed(th, "tokA")
    \/ \E th \in ThreadIds : ThreadSave(th)
    \/ \E th \in ThreadIds : ThreadMarkSignaled(th)
    \/ \E th \in ThreadIds : ThreadReturn(th)
    \/ Tick

SpecThreads == Init /\ [][NextThreads]_vars

-----------------------------------------------------------------------------
(* One WebhookHandler serving requests on one event loop *)

NextWebhook ==
    \/ \E transactions \in Batches : Handle(transactions)
    \/ \E r \in DOMAIN requests : \E signal \in BOOLEAN : Resume(r, signal)

SpecWebhook == Init /\ [][NextWebhook]_vars

-----------------------------------------------------------------------------
(* src/webhook/parser.py *)

TOKEN_CREATED == "token_created"
CURVE_PROGRESS == "curve_progress"
MIGRATION == "migration"
UNKNOWN == "unknown"

\* The mints of the model that end with PUMP_TOKEN_SUFFIX ("pump").
PumpMints == {"tokApump", "tokBpump"}

\* mint.endswith(self.PUMP_TOKEN_SUFFIX), for a mint that is a string.
ends_with_pump(mint) == mint \in PumpMints

\* str.upper() on the type tags of the model.
upper(s) ==
    CASE s \in {"CREATE", "create", "Create"} -> "CREATE"
      [] s \in {"SWAP", "swap", "Swap"} -> "SWAP"
      [] s \in {"MIGRATE", "migrate"} -> "MIGRATE"
      [] s \in {"MIGRATION", "migration", "Migration"} -> "MIGRATION"
      [] s \in {"TRANSFER", "transfer"} -> "TRANSFER"
      [] s \in {"UNKNOWN", "unknown"} -> "UNKNOWN"
      [] OTHER -> s

\* Mutant: the type tag is compared as it is written.
detect_event_type_case_sensitive(tx) ==
    IF ~IsSet(tx.type) THEN Raises
    ELSE LET tx_type == Val(tx.type)
         IN  IF tx_type = "CREATE" THEN Returns(TOKEN_CREATED)
             ELSE IF tx_type = "SWAP" THEN Returns(CURVE_PROGRESS)
             ELSE IF tx_type \in {"MIGRATE", "MIGRATION"} THEN Returns(MIGRATION)
             ELSE Returns(UNKNOWN)

\* EventParser._detect_event_type.  tx.type is None for a JSON null, on which
\* .upper() raises; a missing key reads as "".
detect_event_type(tx) ==
    IF ~IsSet(tx.type) THEN Raises
    ELSE LET tx_type == upper(Val(tx.type))
         IN  IF tx_type = "CREATE" THEN Returns(TOKEN_CREATED)
             ELSE IF tx_type = "SWAP" THEN Returns(CURVE_PROGRESS)
             ELSE IF tx_type \in {"MIGRATE", "MIGRATION"} THEN Returns(MIGRATION)
             ELSE Returns(UNKNOWN)

\* `for x in records: mint = x.get("mint", ""); if mint.endswith("pump"): ...;
\* break`: the index of the first record whose mint ends with "pump" (0 if
\* there is none); a mint that is None, met before a match, raises.
RECURSIVE first_pump(_, _)
first_pump(records, k) ==
    IF k > Len(records) THEN Returns(0)
    ELSE IF ~IsSet(records[k].mint) THEN Raises
    ELSE IF ends_with_pump(Val(records[k].mint)) THEN Returns(k)
    ELSE first_pump(records, k + 1)

\* The loop over accountData with its inner loop over tokenBalanceChanges
\* (lines 124-129, 180-190): the inner `break` leaves only the inner loop, so
\* every account is visited and the last account with a match decides.  The
\* value is <<account index, change index>>, <<0, 0>> without a match.
RECURSIVE scan_account_data(_, _, _)
scan_account_data(accountData, a, found) ==
    IF a > Len(accountData) THEN Returns(found)
    ELSE LET hit == first_pump(accountData[a].tokenBalanceChanges, 1)
         IN  IF hit.raises THEN Raises
             ELSE scan_account_data(accountData, a + 1,
                                    IF hit.value > 0 THEN <<a, hit.value>> ELSE found)

RECURSIVE SumSeq(_)
SumSeq(q) == IF q = <<>> THEN 0 ELSE Head(q) + SumSeq(Tail(q))

MaxSeq(q) == CHOOSE x \in {q[k] : k \in DOMAIN q} : \A k \in DOMAIN q : q[k] <= x

AbsSeq(q) == [k \in DOMAIN q |-> Abs(q[k])]

RECURSIVE Pow10(_)
Pow10(n) == IF n = 0 THEN 1 ELSE 10 * Pow10(n - 1)

lamports_per_sol == 1000000000

\* The timestamp given to the event: the transaction's if it has one, else the
\* default of the event model (the clock).
event_timestamp(tx, t) == IF IsSet(tx.timestamp) THEN Val(tx.timestamp) ELSE t

\* EventParser._build_token_created
build_token_created(tx, t) ==
    LET transfer == first_pump(tx.tokenTransfers, 1)
    IN  IF transfer.raises THEN Raises
        ELSE LET account == IF transfer.value > 0 THEN Returns(<<0, 0>>)
                            ELSE scan_account_data(tx.accountData, 1, <<0, 0>>)
             IN  IF account.raises THEN Raises
                 ELSE IF transfer.value = 0 /\ account.value = <<0, 0>> THEN Returns(None)
                 ELSE LET token_address ==
                              IF transfer.value > 0
                              THEN Val(tx.tokenTransfers[transfer.value].mint)
                              ELSE Val(tx.accountData[account.value[1]]
                                         .tokenBalanceChanges[account.value[2]].mint)
                          Positive(x) == x > 0
                      IN  Returns(Some(
                            [event_type |-> TOKEN_CREATED,
                             tx_signature |-> tx.signature,
                             token_address |-> token_address,
                             timestamp |-> event_timestamp(tx, t),
                             initial_liquidity_sol |->
                                 R(SumSeq(SelectSeq(tx.nativeTransfers, Positive)),
                                   lamports_per_sol)]))

\* EventParser._build_curve_progress
build_curve_progress(tx, t) ==
    LET transfer == first_pump(tx.tokenTransfers, 1)
    IN  IF transfer.raises THEN Raises
        ELSE LET account == IF transfer.value > 0 THEN Returns(<<0, 0>>)
                            ELSE scan_account_data(tx.accountData, 1, <<0, 0>>)
             IN  IF account.raises THEN Raises
                 ELSE IF transfer.value = 0 /\ account.value = <<0, 0>> THEN Returns(None)
                 ELSE LET change == tx.accountData[account.value[1]]
                                      .tokenBalanceChanges[account.value[2]]
                          token_address ==
                              IF transfer.value > 0
                              THEN Val(tx.tokenTransfers[transfer.value].mint)
                              ELSE Val(change.mint)
                          token_amount ==
                              IF transfer.value > 0
                              THEN RInt(Abs(tx.tokenTransfers[transfer.value].tokenAmount))
                              ELSE R(Abs(change.tokenAmount), Pow10(change.decimals))
                          NonZero(x) == x /= 0
                          deltas == [k \in DOMAIN tx.accountData |->
                                        tx.accountData[k].nativeBalanceChange]
                          sol_amounts ==
                              IF tx.nativeTransfers /= <<>> THEN AbsSeq(tx.nativeTransfers)
                              ELSE AbsSeq(SelectSeq(deltas, NonZero))
                          main_sol_amount ==
                              IF sol_amounts /= <<>>
                              THEN R(MaxSeq(sol_amounts), lamports_per_sol) ELSE RZero
                          total_sol ==
                              RDiv(R(SumSeq(sol_amounts), lamports_per_sol), RInt(2))
                          priced == RPos(token_amount) /\ RPos(main_sol_amount)
                          token_price == RDiv(main_sol_amount, token_amount)
                      IN  Returns(Some(
                            [event_type |-> CURVE_PROGRESS,
                             tx_signature |-> tx.signature,
                             token_address |-> token_address,
                             timestamp |-> event_timestamp(tx, t),
                             curve_progress_pct |-> 0,
                             liquidity_sol |-> total_sol,
                             market_cap_sol |->
                                 IF priced
                                 THEN Some(RMul(token_price, RInt(total_supply)))
                                 ELSE None,
                             token_price_sol |-> IF priced THEN Some(token_price) ELSE None,
                             token_amount |-> token_amount]))

\* EventParser._build_migration: the token is looked for in tokenTransfers only.
build_migration(tx, t) ==
    LET transfer == first_pump(tx.tokenTransfers, 1)
    IN  IF transfer.raises THEN Raises
        ELSE IF transfer.value = 0 THEN Returns(None)
        ELSE Returns(Some(
               [event_type |-> MIGRATION,
                tx_signature |-> tx.signature,
                token_address |-> Val(tx.tokenTransfers[transfer.value].mint),
                timestamp |-> event_timestamp(tx, t),
                final_liquidity_sol |->
                    R(SumSeq(AbsSeq(tx.nativeTransfers)), lamports_per_sol)]))

\* EventParser._build_event
build_event(event_type, tx, t) ==
    IF event_type = TOKEN_CREATED THEN build_token_created(tx, t)
    ELSE IF event_type = CURVE_PROGRESS THEN build_curve_progress(tx, t)
    ELSE IF event_type = MIGRATION THEN build_migration(tx, t)
    ELSE Returns(None)

\* The body of the try block of parse_transaction (lines 42-56).
parse_transaction_body(tx, t) ==
    IF tx.signature = "" THEN Returns(None)
    ELSE IF tx.source /= PUMP_FUN THEN Returns(None)
    ELSE LET event_type == detect_event_type(tx)
         IN  IF event_type.raises THEN Raises
             ELSE IF event_type.value = UNKNOWN THEN Returns(None)
             ELSE build_event(event_type.value, tx, t)

\* Mutant: no exception is caught.
parse_transaction_unguarded(tx, t) == parse_transaction_body(tx, t)

\* EventParser.parse_transaction: `except Exception` returns None.
parse_transaction(tx, t) ==
    IF parse_transaction_body(tx, t).raises THEN Returns(None)
    ELSE parse_transaction_body(tx, t)

-----------------------------------------------------------------------------
(* Functions called on their own, on arguments drawn from small sets *)

Returned == IsSet(call.ret)

\* The Signals calculate_simulated_pnl is called on: every entry price and buy
\* amount below, the other fields as the generator sets them.
EntryPrices == {None, Some(RZero), Some(R(1, 1000)), Some(R(2, 1000)), Some(R(3, 1000))}
BuyAmounts == {RZero, R(1, 2), RInt(1), RInt(2)}
ExitPrices == {RZero, R(1, 1000), R(2, 1000), R(20, total_supply)}

PnlSignal(entry_price_sol, buy) ==
    [id |-> 1,
     token_address |-> "tokA",
     trigger_tx_signature |-> "sig1",
     signal_time |-> 0,
     entry_curve_progress_pct |-> 0,
     entry_liquidity_sol |-> RInt(10),
     entry_market_cap_sol |-> None,
     entry_price_sol |-> entry_price_sol,
     simulated_buy_sol |-> buy,
     status |-> PENDING,
     outcome |-> SignalOutcome,
     created_at |-> 0,
     updated_at |-> 0]

PnlCalls ==
    {[fn |-> "calculate_simulated_pnl",
      args |-> [signal |-> PnlSignal(entry, buy), exit_price_sol |-> exit],
      ret |-> None] : entry \in EntryPrices, buy \in BuyAmounts, exit \in ExitPrices}

\* signal.calculate_simulated_pnl(exit_price_sol): the signal it leaves.
CalculateSimulatedPnl ==
    /\ call.fn = "calculate_simulated_pnl"
    /\ ~Returned
    /\ call' = [call EXCEPT !.ret =
                   Some(calculate_simulated_pnl(call.args.signal,
                                                call.args.exit_price_sol, now))]
    /\ UNCHANGED <<signalVars, threads, webhookVars, touched>>

\* The transactions parse_transaction is called on (the fields it reads).
TypeTags ==
    {None} \cup {Some(s) : s \in {"", "CREATE", "create", "SWAP", "Swap", "MIGRATE",
                                   "Migration", "TRANSFER", "UNKNOWN"}}

TokenTransferLists ==
    {<<>>,
     <<[mint |-> Some("tokApump"), tokenAmount |-> 1000]>>,
     <<[mint |-> Some("So11111111111111111111111111111111111111112"), tokenAmount |-> 1],
       [mint |-> Some("tokBpump"), tokenAmount |-> -2000]>>,
     <<[mint |-> None, tokenAmount |-> 1]>>}

AccountDataLists ==
    {<<>>,
     <<[tokenBalanceChanges |->
            <<[mint |-> Some("tokApump"), tokenAmount |-> 1000000000, decimals |-> 6]>>,
        nativeBalanceChange |-> -1000000000],
       [tokenBalanceChanges |->
            <<[mint |-> Some("tokBpump"), tokenAmount |-> -500000000, decimals |-> 6]>>,
        nativeBalanceChange |-> 1000000000]>>}

NativeTransferLists == {<<>>, <<1000000000>>, <<1000000000, -500000000>>}

ParserTransactions ==
    [signature : {"", "sig1"},
     source : {PUMP_FUN, "RAYDIUM"},
     type : TypeTags,
     tokenTransfers : TokenTransferLists,
     accountData : AccountDataLists,
     nativeTransfers : NativeTransferLists,
     timestamp : {None, Some(1)}]

ParserCalls ==
    {[fn |-> "parse_transaction", args |-> tx, ret |-> None] : tx \in ParserTransactions}

\* parser.parse_transaction(tx): whether it raised, and what it returned.
ParseTransaction ==
    /\ call.fn = "parse_transaction"
    /\ ~Returned
    /\ call' = [call EXCEPT !.ret = Some(parse_transaction(call.args, now))]
    /\ UNCHANGED <<signalVars, threads, webhookVars, touched>>

\* src/filters/base.py.  A filter of the model is its name and the
\* FilterResult its evaluate() gives the event.
accept == [passed |-> TRUE, reason |-> None]
reject(reason) == [passed |-> FALSE, reason |-> Some(reason)]

\* FilterChain.add
chain_add(filters, f) == Append(filters, f)

\* Mutant: every filter is evaluated and the last rejection is returned.
RECURSIVE chain_evaluate_last_rejection(_, _, _, _)
chain_evaluate_last_rejection(filters, k, evaluated, result) ==
    IF k > Len(filters) THEN [result |-> result, evaluated |-> evaluated]
    ELSE chain_evaluate_last_rejection(
             filters, k + 1, Append(evaluated, filters[k].name),
             IF ~filters[k].result.passed
             THEN reject(<<filters[k].name, filters[k].result.reason>>)
             ELSE result)

\* FilterChain.evaluate from its k-th filter on: the FilterResult returned and
\* the names of the filters whose evaluate() was awaited, in order.  The
\* reason f"{f.name}: {result.reason}" is the pair <<name, reason>>.
RECURSIVE chain_evaluate(_, _, _, _)
chain_evaluate(filters, k, evaluated, result) ==
    IF k > Len(filters) THEN [result |-> result, evaluated |-> evaluated]
    ELSE IF ~filters[k].result.passed
    THEN [result |-> reject(<<filters[k].name, filters[k].result.reason>>),
          evaluated |-> Append(evaluated, filters[k].name)]
    ELSE chain_evaluate(filters, k + 1, Append(evaluated, filters[k].name), result)

\* The filters a chain is built from: one that passes, two that reject.
Filters ==
    {[name |-> "liquidity", result |-> accept],
     [name |-> "progress", result |-> reject("too_low")],
     [name |-> "holders", result |-> reject("too_few")]}

MaxChain == 3

Insertions == UNION {[1..n -> Filters] : n \in 0..MaxChain}

\* FilterChain() followed by one add() per inserted filter.
RECURSIVE ChainOf(_)
ChainOf(insertions) ==
    IF insertions = <<>> THEN <<>>
    ELSE chain_add(ChainOf(SubSeq(insertions, 1, Len(insertions) - 1)),
                   insertions[Len(insertions)])

ChainCalls ==
    {[fn |-> "FilterChain.evaluate", args |-> ChainOf(q), ret |-> None] : q \in Insertions}

\* await chain.evaluate(event)
ChainEvaluate ==
    /\ call.fn = "FilterChain.evaluate"
    /\ ~Returned
    /\ call' = [call EXCEPT !.ret = Some(chain_evaluate(call.args, 1, <<>>, accept))]
    /\ UNCHANGED <<signalVars, threads, webhookVars, touched>>

\* The events _check_filters is called on: liquidity and progress below, on
\* and above each threshold.
FilterEvents ==
    [token_address : {"tokA"},
     tx_signature : TxSignatures,
     timestamp : {0},
     curve_progress_pct : {min_curve_progress_pct - 1, min_curve_progress_pct, 50,
                           max_curve_progress_pct, max_curve_progress_pct + 1},
     liquidity_sol : {min_liquidity_sol - 1, min_liquidity_sol, min_liquidity_sol + 1},
     price : {<<None, None>>}]

FilterCalls ==
    {[fn |-> "check_filters", args |-> e, ret |-> None] : e \in FilterEvents}

\* generator._check_filters(event)
CheckFilters ==
    /\ call.fn = "check_filters"
    /\ ~Returned
    /\ call' = [call EXCEPT !.ret = Some(check_filters(call.args))]
    /\ UNCHANGED <<signalVars, threads, webhookVars, touched>>

\* The events _estimate_price is called on: unit price and market cap each
\* missing, zero, negative or positive.
UnitPrices == {None, Some(RZero), Some(R(-1, 1000)), Some(R(2, 1000))}
MarketCaps == {None, Some(RZero), Some(RInt(-1000000)), Some(RInt(1000000))}

PricedEvents ==
    [token_address : {"tokA"},
     tx_signature : TxSignatures,
     timestamp : {0},
     curve_progress_pct : {50},
     liquidity_sol : {10},
     price : UnitPrices \X MarketCaps]

PriceCalls ==
    {[fn |-> "estimate_price", args |-> e, ret |-> None] : e \in PricedEvents}

\* generator._estimate_price(event), the entry price of the Signal that
\* evaluate_curve_progress builds from the event.
EstimatePrice ==
    /\ call.fn = "estimate_price"
    /\ ~Returned
    /\ call' = [call EXCEPT !.ret = Some(CurveSignal(call.args, 1, now).entry_price_sol)]
    /\ UNCHANGED <<signalVars, threads, webhookVars, touched>>

\* Mutant: the lower progress threshold is not checked.
check_filters_without_min_progress(f, e) ==
    IF RPos(RSub(RInt(f.min_liquidity_sol), e.liquidity_sol))
    THEN Some("liquidity_too_low")
    ELSE IF e.curve_progress_pct > f.max_curve_progress_pct
         THEN Some("curve_progress_too_high")
    ELSE None

\* SignalGenerator._check_filters under the thresholds f, on an event as the
\* parser builds it (its liquidity a fraction of a SOL).
check_filters_under(f, e) ==
    IF RPos(RSub(RInt(f.min_liquidity_sol), e.liquidity_sol))
    THEN Some("liquidity_too_low")
    ELSE IF e.curve_progress_pct < f.min_curve_progress_pct
         THEN Some("curve_progress_too_low")
    ELSE IF e.curve_progress_pct > f.max_curve_progress_pct
         THEN Some("curve_progress_too_high")
    ELSE None

\* FilterThresholds as configured: the defaults, and a lower progress
\* threshold and a liquidity threshold above zero.
ConfiguredThresholds ==
    [min_liquidity_sol : {0, 1},
     min_curve_progress_pct : {min_curve_progress_pct, 10},
     max_curve_progress_pct : {max_curve_progress_pct}]

PipelineCalls ==
    {[fn |-> "classify_and_evaluate", args |-> [tx |-> tx, filters |-> f], ret |-> None] :
        tx \in {x \in ParserTransactions :
                   /\ x.signature /= ""
                   /\ x.source = PUMP_FUN
                   /\ x.type \in {Some("SWAP"), Some("Swap")}},
        f \in ConfiguredThresholds}

\* parser.parse_transaction(tx) followed, for a CurveProgress event, by the
\* checks of generator.evaluate_curve_progress on a token not yet signaled:
\* the event, the rejection, and whether a Signal is created.
ClassifyAndEvaluate ==
    /\ call.fn = "classify_and_evaluate"
    /\ ~Returned
    /\ LET event == parse_transaction(call.args.tx, now).value
           rejection == IF IsSet(event)
                        THEN check_filters_under(call.args.filters, Val(event))
                        ELSE None
       IN  call' = [call EXCEPT !.ret =
                       Some([event |-> event,
                             rejection |-> rejection,
                             created |-> IsSet(event) /\ ~IsSet(rejection)])]
    /\ UNCHANGED <<signalVars, threads, webhookVars, touched>>

\* The transactions MigrationParser.parse is called on: mints of base/quote
\* tokens and of memecoins, in the token transfers and in the balance changes.
MigrationTransactions ==
    [signature : {"sig1"},
     source : {PUMP_FUN, "RAYDIUM"},
     tokenTransfers :
        {<<>>,
         <<"So11111111111111111111111111111111111111112">>,
         <<"So11111111111111111111111111111111111111112", "mintA">>,
         <<"EPjFWdd5AufqSSqeM2qN1xzybapC8G4wEGGkZwyTDt1v",
           "So11111111111111111111111111111111111111112">>,
         <<"", "mintB", "mintA">>},
     accountData :
        {<<>>,
         <<<<"So11111111111111111111111111111111111111112">>, <<"mintB">>>>,
         <<<<>>, <<"Es9vMFrzaCERmJfrF4H2FYD4KCoNkY11McCe8BenwNYB", "mintA", "mintB">>>>},
     accountKeys : {<<>>, <<"675kPX9MHTjS2zt1qfr1NYHuzeLXfQM9H24wFSUt1Mp8">>},
     instructions : {<<>>}]

MigrationCalls ==
    {[fn |-> "MigrationParser.parse", args |-> tx, ret |-> None] :
        tx \in MigrationTransactions}

\* MigrationParser.parse(tx)
MigrationParse ==
    /\ call.fn = "MigrationParser.parse"
    /\ ~Returned
    /\ call' = [call EXCEPT !.ret = Some(parse(call.args))]
    /\ UNCHANGED <<signalVars, threads, webhookVars, touched>>

Calls ==
    PnlCalls \cup ParserCalls \cup FilterCalls \cup PriceCalls \cup ChainCalls
        \cup PipelineCalls \cup MigrationCalls

InitCalls ==
    InitSignals /\ InitThreads /\ InitWebhook /\ call \in Calls /\ touched = <<>>

NextCalls ==
    \/ CalculateSimulatedPnl
    \/ ParseTransaction
    \/ CheckFilters
    \/ EstimatePrice
    \/ ChainEvaluate
    \/ ClassifyAndEvaluate
    \/ MigrationParse

SpecCalls == InitCalls /\ [][NextCalls]_vars

-----------------------------------------------------------------------------
(* One IdempotencyStore of capacity max_size, its methods called in any order *)

Keys == {"k1", "k2", "k3"}

\* IdempotencyStore.get: the stored value (always True here), or None.
store_get(store, key) == IF HasKey(store, key) THEN Some(TRUE) ELSE None

\* IdempotencyStore.clear
store_clear(store) == <<>>

\* IdempotencyStore.__len__
store_len(store) == Len(store)

StoreContains(key) ==
    LET found == contains(seen_signatures, key)
    IN  /\ seen_signatures' = found.store
        /\ touched' = IF found.ret THEN move_to_end(touched, key) ELSE touched
        /\ call' = [fn |-> "contains", args |-> key, ret |-> Some(found.ret)]
        /\ UNCHANGED <<signalVars, threads, requests, deliveries>>

StoreAdd(key) ==
    /\ seen_signatures' = add(seen_signatures, key)
    /\ touched' = move_to_end(touched, key)
    /\ call' = [fn |-> "add", args |-> key, ret |-> None]
    /\ UNCHANGED <<signalVars, threads, requests, deliveries>>

StoreGet(key) ==
    /\ call' = [fn |-> "get", args |-> key, ret |-> store_get(seen_signatures, key)]
    /\ UNCHANGED <<signalVars, threads, webhookVars, touched>>

StoreClear ==
    /\ seen_signatures' = store_clear(seen_signatures)
    /\ call' = [fn |-> "clear", args |-> "", ret |-> None]
    /\ UNCHANGED <<signalVars, threads, requests, deliveries, touched>>

NextStore ==
    \/ \E key \in Keys : StoreContains(key)
    \/ \E key \in Keys : StoreAdd(key)
    \/ \E key \in Keys : StoreGet(key)
    \/ StoreClear

SpecStore == Init /\ [][NextStore]_vars

-----------------------------------------------------------------------------
(* One SignalStorage, its save, get and get_stats called in any order *)

StoredIds == {1, 2}

\* The PnL percentages of the Signals saved: unset, a total loss, break-even and
\* a gain.
PnlPcts == {None, Some(RInt(-100)), Some(RZero), Some(RInt(50))}

\* The Signals save is called with.
SaveSignals ==
    {[id |-> id,
      token_address |-> "tokA",
      trigger_tx_signature |-> "sig1",
      signal_time |-> 0,
      entry_curve_progress_pct |-> 0,
      entry_liquidity_sol |-> RInt(10),
      entry_market_cap_sol |-> None,
      entry_price_sol |-> entry,
      simulated_buy_sol |-> simulated_buy_sol,
      status |-> st,
      outcome |-> [SignalOutcome EXCEPT !.migrated = (st = MIGRATED),
                                        !.simulated_pnl_pct = pnl],
      created_at |-> 0,
      updated_at |-> 0] :
        id \in StoredIds, entry \in {None, Some(RZero), Some(R(2, 1000))},
        st \in SignalStatus, pnl \in PnlPcts}

\* storage.save(signal)
Save(s) ==
    /\ db' = save(db, s)
    /\ call' = [fn |-> "save", args |-> s, ret |-> None]
    /\ UNCHANGED <<signaled_tokens, now, uuid_next, lastOp, created>>
    /\ UNCHANGED <<threads, webhookVars, touched>>

\* storage.get(signal_id)
Get(signal_id) ==
    /\ call' = [fn |-> "get", args |-> signal_id, ret |-> Some(get(db, signal_id))]
    /\ UNCHANGED <<signalVars, threads, webhookVars, touched>>

\* storage.get_stats()
GetStats ==
    /\ call' = [fn |-> "get_stats", args |-> None, ret |-> Some(get_stats(db))]
    /\ UNCHANGED <<signalVars, threads, webhookVars, touched>>

NextSave ==
    \/ \E s \in SaveSignals : Save(s)
    \/ \E signal_id \in StoredIds : Get(signal_id)
    \/ GetStats

SpecSave == Init /\ [][NextSave]_vars

-----------------------------------------------------------------------------
(* Properties of the generator and the tracker under Spec *)

PendingIds(rows, token) ==
    {i \in DOMAIN rows : rows[i].token_address = token /\ rows[i].status = PENDING}

TrackerOps == {"handle_migration", "handle_curve_update", "expire_old_signals",
               "mark_failed"}

\* C2: between two resets, one generator creates and stores at most one Signal
\* per subject token, whatever mix of curve-progress and token-created events
\* it evaluates.
C2_OneSignalPerToken == \A t \in Tokens : created[t] <= 1

\* C2 witness: a token already has its Signal and a further event for a
\* signaled token has just been skipped as a duplicate.
C2_Witness ==
    /\ lastOp.why = "duplicate"
    /\ \E t \in Tokens : created[t] = 1 /\ t \in signaled_tokens

\* C3: a stored Signal whose status is Migrated, Failed or Expired keeps that
\* status through every later call.
C3_TerminalStatusFinal ==
    [][\A i \in DOMAIN db :
          db[i].status \in Terminal =>
              i \in DOMAIN db' /\ db'[i].status = db[i].status]_vars

\* C3 witness: every token has signals, all of them terminal and of two
\* different terminal statuses, and a mark_failed call has just run over them.
C3_Witness ==
    /\ lastOp.op = "mark_failed"
    /\ \A t \in Tokens : \E i \in DOMAIN db : db[i].token_address = t
    /\ \A i \in DOMAIN db : db[i].status \in Terminal
    /\ \E i, j \in DOMAIN db : db[i].status /= db[j].status

\* C4: a terminal Signal's stored record (its Outcome included) is never
\* written again, and a Migration event for a token with signals but no Pending
\* one writes nothing and returns nothing.
C4_TerminalFrozen ==
    [][/\ \A i \in DOMAIN db : db[i].status \in Terminal => db'[i] = db[i]
       /\ lastOp'.op = "handle_migration" =>
             \A e \in MigrationEvents(now) :
                (/\ PendingIds(db, e.token_address) = {}
                 /\ \E i \in DOMAIN db : db[i].token_address = e.token_address
                 /\ HandleMigration(e))
                => /\ db' = db
                   /\ lastOp'.ret = None
                   /\ lastOp'.writes = <<>>]_vars

\* C4 witness: every token's signals are all Migrated, with PnL recorded, and
\* a further Migration event has just been handled.
C4_Witness ==
    /\ lastOp.op = "handle_migration"
    /\ lastOp.ret = None
    /\ \A t \in Tokens : \E i \in DOMAIN db : db[i].token_address = t
    /\ \A i \in DOMAIN db : db[i].status = MIGRATED
    /\ \E i \in DOMAIN db : IsSet(db[i].outcome_json.simulated_pnl_pct)

\* C8: handle_migration for a token with Pending signals changes exactly one
\* stored record: a Pending signal of that token with the greatest signal_time.
\* It becomes Migrated with outcome.migrated set and migration_time the event's
\* timestamp; every other record is left as it was.
C8_MigratesNewestPending ==
    [][lastOp'.op = "handle_migration" =>
       \A e \in MigrationEvents(now) :
          (PendingIds(db, e.token_address) /= {} /\ HandleMigration(e)) =>
             \E i \in PendingIds(db, e.token_address) :
                /\ \A j \in PendingIds(db, e.token_address) :
                      db[j].signal_time <= db[i].signal_time
                /\ db'[i].status = MIGRATED
                /\ db'[i].outcome_json.migrated
                /\ db'[i].outcome_json.migration_time = Some(e.timestamp)
                /\ DOMAIN db' = DOMAIN db
                /\ \A j \in DOMAIN db : j /= i => db'[j] = db[j]]_vars

\* C8 witness: a migration has just moved a token's newest Pending signal and
\* an older Pending signal of the same token is still Pending.
C8_Witness ==
    /\ lastOp.op = "handle_migration"
    /\ IsSet(lastOp.ret)
    /\ \E j \in DOMAIN db :
          /\ j /= Val(lastOp.ret)
          /\ db[j].token_address = db[Val(lastOp.ret)].token_address
          /\ db[j].status = PENDING
          /\ db[j].signal_time < db[Val(lastOp.ret)].signal_time

\* C9: handle_curve_update changes no status, writes no signal that is not
\* Pending, and recomputes the PnL of the token's Pending signals from the
\* event's unit price token_price_sol.
C9_ExitPriceIsUnitPrice ==
    [][lastOp'.op = "handle_curve_update" =>
       \A e \in CurveUpdateEvents(now) :
          HandleCurveUpdate(e) =>
             /\ \A i \in DOMAIN db : db'[i].status = db[i].status
             /\ \A i \in DOMAIN db : db[i].status /= PENDING => db'[i] = db[i]
             /\ \A i \in PendingIds(db, e.token_address) :
                   (Truthy(token_price_sol(e)) /\ Truthy(db[i].entry_price_sol)) =>
                       db'[i] = SignalToRow(curve_update(RowToSignal(db[i]),
                                                         token_price_sol(e), now))]_vars

\* C10: after a call of expire_old_signals no signal is left Pending with a
\* signal_time older than the cutoff.
C10_SweepExpiresAllOld ==
    [][(lastOp'.op = "expire_old_signals" /\ ExpireOldSignals) =>
          \A i \in DOMAIN db' :
             ~(db'[i].status = PENDING /\ db'[i].signal_time < now - expiry_hours)]_vars

\* C11: expire_old_signals leaves every Pending signal that is not older than
\* the cutoff (one exactly at the cutoff included) and every signal that is
\* not Pending as it was, and returns the number of signals it moved from
\* Pending to Expired.
C11_SweepFrameAndCount ==
    [][(lastOp'.op = "expire_old_signals" /\ ExpireOldSignals) =>
          /\ DOMAIN db' = DOMAIN db
          /\ \A i \in DOMAIN db :
                (db[i].status /= PENDING \/ db[i].signal_time >= now - expiry_hours)
                    => db'[i] = db[i]
          /\ lastOp'.ret =
                Cardinality({i \in DOMAIN db :
                    db[i].status = PENDING /\ db'[i].status = EXPIRED})]_vars

\* C11 witness: a sweep has just expired one signal and has left Pending a
\* signal whose signal_time is exactly the cutoff.
C11_Witness ==
    /\ lastOp.op = "expire_old_signals"
    /\ lastOp.ret = 1
    /\ \E i \in DOMAIN db : db[i].status = EXPIRED /\ db[i].updated_at = now
    /\ \E i \in DOMAIN db :
          db[i].status = PENDING /\ db[i].signal_time = now - expiry_hours

\* C12: mark_failed(token) stores every Pending signal of the token as Failed
\* with simulated_pnl_pct -100 and simulated_pnl_sol minus the buy amount,
\* returns them, and leaves every other stored signal as it was.
C12_MarkFailedForcesLoss ==
    [][lastOp'.op = "mark_failed" =>
       \A token \in Tokens :
          MarkFailed(token) =>
             /\ DOMAIN db' = DOMAIN db
             /\ \A i \in PendingIds(db, token) :
                   /\ db'[i].status = FAILED
                   /\ db'[i].outcome_json.simulated_pnl_pct = Some(RInt(-100))
                   /\ db'[i].outcome_json.simulated_pnl_sol =
                         Some(RNeg(db[i].simulated_buy_sol))
                   /\ db'[i].token_address = token
                   /\ db'[i].entry_price_sol = db[i].entry_price_sol
                   /\ db'[i].signal_time = db[i].signal_time
                   /\ \E k \in DOMAIN lastOp'.ret : lastOp'.ret[k] = i
             /\ \A i \in DOMAIN db \ PendingIds(db, token) : db'[i] = db[i]
             /\ Len(lastOp'.ret) = Cardinality(PendingIds(db, token))]_vars

\* C12 witness: mark_failed has just failed a Pending signal of a token that
\* also has a Migrated signal, which is still Migrated.
C12_Witness ==
    /\ lastOp.op = "mark_failed"
    /\ Len(lastOp.ret) = 1
    /\ db[lastOp.ret[1]].status = FAILED
    /\ \E j \in DOMAIN db :
          /\ j /= lastOp.ret[1]
          /\ db[j].token_address = db[lastOp.ret[1]].token_address
          /\ db[j].status = MIGRATED

PnlUnset(outcome) ==
    /\ outcome.simulated_entry_sol = None
    /\ outcome.simulated_exit_sol = None
    /\ outcome.simulated_pnl_sol = None
    /\ outcome.simulated_pnl_pct = None

\* C14: with an unset or zero entry price the PnL calculation is skipped:
\* calculate_simulated_pnl returns the signal as it was, and after
\* handle_migration or handle_curve_update the four simulated_* fields of a
\* Pending signal without entry price are still unset, a migration still
\* storing the signal it selected as Migrated.
C14_NoEntryPriceNoPnl ==
    [][lastOp'.op \in {"handle_migration", "handle_curve_update"} =>
          /\ \A entry \in {None, Some(RZero)} : \A buy \in BuyAmounts :
                \A exit \in ExitPrices :
                   calculate_simulated_pnl(PnlSignal(entry, buy), exit, now)
                       = PnlSignal(entry, buy)
          /\ \A i \in DOMAIN db :
                (db[i].status = PENDING /\ ~Truthy(db[i].entry_price_sol)) =>
                    /\ PnlUnset(db[i].outcome_json)
                    /\ PnlUnset(db'[i].outcome_json)
                    /\ (lastOp'.op = "handle_migration" /\ lastOp'.ret = Some(i))
                           => (db'[i].status = MIGRATED /\ db'[i].outcome_json.migrated)
                    /\ lastOp'.op = "handle_curve_update" => db'[i] = db[i]]_vars

\* C14 witness: a migration has just moved a signal without entry price to
\* Migrated, and its PnL fields are unset.
C14_Witness ==
    /\ lastOp.op = "handle_migration"
    /\ IsSet(lastOp.ret)
    /\ db[Val(lastOp.ret)].status = MIGRATED
    /\ ~IsSet(db[Val(lastOp.ret)].entry_price_sol)
    /\ PnlUnset(db[Val(lastOp.ret)].outcome_json)
    /\ IsSet(db[Val(lastOp.ret)].outcome_json.price_at_migration)

\* The scenario's swap event and migration event for a token.
IsScenarioSwap(e) == e.liquidity_sol = 10 /\ e.curve_progress_pct = 50

\* C15 (under SpecScenario): a swap event with liquidity 10, progress 50,
\* traded amount 1000 and native amount 1, for a token not yet signaled, stores
\* exactly one new signal, Pending, with entry price 0.001; a Migration event
\* with final liquidity 20 then stores that signal as Migrated with the
\* pnl_pct the PnL law gives for exit price 20/1e9 (-99.998).
C15_EndToEnd ==
    [][/\ lastOp'.op = "evaluate_curve_progress" =>
             \A e \in ScenarioCurveEvents(now) :
                (/\ IsScenarioSwap(e)
                 /\ e.token_address \notin signaled_tokens
                 /\ lastOp'.why = "created"
                 /\ EvaluateCurveProgress(e))
                => /\ Cardinality(DOMAIN db' \ DOMAIN db) = 1
                   /\ \A i \in DOMAIN db : db'[i] = db[i]
                   /\ \A i \in DOMAIN db' \ DOMAIN db :
                         /\ db'[i].token_address = e.token_address
                         /\ db'[i].status = PENDING
                         /\ db'[i].entry_price_sol = Some(R(1, 1000))
                         /\ db'[i].entry_curve_progress_pct = 50
                         /\ db'[i].entry_liquidity_sol = RInt(10)
       /\ lastOp'.op = "handle_migration" =>
             \A e \in ScenarioMigrationEvents(now) :
                (PendingIds(db, e.token_address) /= {} /\ HandleMigration(e)) =>
                   \E i \in PendingIds(db, e.token_address) :
                      LET buy == db[i].simulated_buy_sol
                          exit_value == RMul(RDiv(buy, R(1, 1000)), R(20, total_supply))
                      IN  /\ lastOp'.ret = Some(i)
                          /\ db'[i].status = MIGRATED
                          /\ db'[i].outcome_json.simulated_pnl_pct =
                                Some(RMul(RDiv(RSub(exit_value, buy), buy), RInt(100)))
                          /\ db'[i].outcome_json.simulated_pnl_pct = Some(R(-99998, 1000))]_vars

\* C15 witness: the scenario has run: the one signal of a token was created
\* Pending with entry price 0.001 and a migration has just stored it Migrated.
C15_Witness ==
    /\ lastOp.op = "handle_migration"
    /\ IsSet(lastOp.ret)
    /\ db[Val(lastOp.ret)].status = MIGRATED
    /\ db[Val(lastOp.ret)].entry_price_sol = Some(R(1, 1000))
    /\ db[Val(lastOp.ret)].entry_curve_progress_pct = 50
    /\ IsSet(db[Val(lastOp.ret)].outcome_json.simulated_pnl_pct)
    /\ Cardinality({i \in DOMAIN db :
          db[i].token_address = db[Val(lastOp.ret)].token_address}) = 1

GeneratorOps == {"evaluate_curve_progress", "evaluate_token_created"}

\* C25: a record that appears in the store is written by the generator, with
\* status Pending, outcome.migrated false and every other Outcome field unset;
\* a record in a non-Pending status was in the store before, either in that
\* status already or as Pending and moved by a tracker operation.
C25_BornPending ==
    [][/\ \A i \in (DOMAIN db') \ (DOMAIN db) :
             /\ lastOp'.op \in GeneratorOps
             /\ db'[i].status = PENDING
             /\ ~db'[i].outcome_json.migrated
             /\ db'[i].outcome_json.migration_time = None
             /\ db'[i].outcome_json.price_at_migration = None
             /\ db'[i].outcome_json.simulated_entry_sol = None
             /\ db'[i].outcome_json.simulated_exit_sol = None
             /\ db'[i].outcome_json.simulated_pnl_pct = None
             /\ db'[i].outcome_json.simulated_pnl_sol = None
       /\ \A i \in DOMAIN db' :
             db'[i].status /= PENDING =>
                /\ i \in DOMAIN db
                /\ \/ db[i].status = db'[i].status
                   \/ db[i].status = PENDING /\ lastOp'.op \in TrackerOps]_vars

\* C25 witness: the generator has just stored a new Pending signal next to a
\* record that a tracker operation had moved out of Pending.
C25_Witness ==
    /\ lastOp.op = "evaluate_token_created"
    /\ lastOp.why = "created"
    /\ db[Val(lastOp.ret)].status = PENDING
    /\ db[Val(lastOp.ret)].outcome_json = SignalOutcome
    /\ \E i \in DOMAIN db : db[i].status \in Terminal

PnlWriters == {"handle_curve_update", "handle_migration", "mark_failed"}

Written(op) == {op.writes[k] : k \in DOMAIN op.writes}

\* C26: once a stored Signal's simulated_pnl_pct is set it stays set through
\* every tracker operation and store write; its value changes only when a
\* curve update, a migration or an explicit failure writes that Signal.
C26_PnlNeverCleared ==
    [][\A i \in DOMAIN db :
          IsSet(db[i].outcome_json.simulated_pnl_pct) =>
             /\ i \in DOMAIN db'
             /\ IsSet(db'[i].outcome_json.simulated_pnl_pct)
             /\ db'[i].outcome_json.simulated_pnl_pct
                    /= db[i].outcome_json.simulated_pnl_pct
                  => (lastOp'.op \in PnlWriters /\ i \in Written(lastOp'))]_vars

\* C26 witness: the expiry sweep has just written a Signal whose PnL a curve
\* update had set, and the PnL is still there.
C26_Witness ==
    /\ lastOp.op = "expire_old_signals"
    /\ \E i \in Written(lastOp) :
          /\ db[i].status = EXPIRED
          /\ IsSet(db[i].outcome_json.simulated_pnl_pct)

\* C30: a stored Signal's updated_at never decreases and is never earlier
\* than its created_at, whichever tracker operation (curve update, migration,
\* expiry, explicit failure) writes the Signal.
C30_UpdatedAtMonotone ==
    [][/\ \A i \in DOMAIN db :
             /\ i \in DOMAIN db'
             /\ db'[i].updated_at >= db[i].updated_at
             /\ db'[i].created_at = db[i].created_at
       /\ \A i \in DOMAIN db' : db'[i].updated_at >= db'[i].created_at]_vars

\* C30 witness: a migration has just written a Signal later than the Signal
\* was created, and the event it handled is dated earlier than that write.
C30_Witness ==
    /\ lastOp.op = "handle_migration"
    /\ \E i \in Written(lastOp) :
          /\ db[i].updated_at > db[i].created_at
          /\ db[i].outcome_json.migration_time = Some(db[i].created_at)

Rejections == {"liquidity_too_low", "curve_progress_too_low",
               "curve_progress_too_high", "insufficient_initial_liquidity"}

\* C31: an evaluation that ends in a duplicate skip or a filter rejection
\* returns nothing and changes neither the store nor the signaled set; a
\* qualifying event for a token that is not in the signaled set (a token
\* rejected before included) is never skipped: a Signal is created for it
\* unless the store write fails.
C31_SkipIsNoOp ==
    [][lastOp'.op \in GeneratorOps =>
          /\ lastOp'.why \in Rejections \cup {"duplicate"} =>
                /\ lastOp'.ret = None
                /\ db' = db
                /\ signaled_tokens' = signaled_tokens
          /\ lastOp.why \in Rejections =>
                \A e \in CurveProgressEvents(now) :
                   (/\ e.token_address \notin signaled_tokens
                    /\ ~IsSet(check_filters(e))
                    /\ EvaluateCurveProgress(e))
                   => \/ lastOp'.why = "save_raised"
                      \/ /\ lastOp'.why = "created"
                         /\ db'[Val(lastOp'.ret)].token_address = e.token_address]_vars

\* C31 witness: an event has just been rejected for its liquidity while no
\* token is in the signaled set and the store is empty.
C31_Witness ==
    /\ lastOp.op = "evaluate_curve_progress"
    /\ lastOp.why = "liquidity_too_low"
    /\ lastOp.ret = None
    /\ signaled_tokens = {}
    /\ db = <<>>

\* C32: when storage.save raises during an evaluation the token is not added
\* to the signaled set and nothing is stored, so every token in the signaled
\* set has a stored Signal; a qualifying event that follows the failure, for a
\* token not in the signaled set, is evaluated again and not skipped as a
\* duplicate.
C32_FailedSaveLeavesTokenUnmarked ==
    [][/\ \A t \in signaled_tokens' :
             \E i \in DOMAIN db' : db'[i].token_address = t
       /\ lastOp'.op \in GeneratorOps =>
             /\ lastOp'.why = "save_raised" =>
                   (db' = db /\ signaled_tokens' = signaled_tokens)
             /\ lastOp.why = "save_raised" =>
                   \A e \in TokenCreatedEvents(now) :
                      (/\ e.token_address \notin signaled_tokens
                       /\ e.initial_liquidity_sol >= min_liquidity_sol
                       /\ EvaluateTokenCreated(e))
                      => lastOp'.why \in {"created", "save_raised"}]_vars

\* C32 witness: a save has just failed for a token that has no stored Signal,
\* while the other token is in the signaled set with its Signal stored.
C32_Witness ==
    /\ lastOp.why = "save_raised"
    /\ \E t, u \in Tokens :
          /\ t \notin signaled_tokens
          /\ \A i \in DOMAIN db : db[i].token_address /= t
          /\ u \in signaled_tokens
          /\ \E i \in DOMAIN db : db[i].token_address = u

SignalsOf(token) == {i \in DOMAIN db : db[i].token_address = token}

\* C33: as long as clear_signaled_tokens is not called, a token with a stored
\* Signal stays in the signaled set whatever status the Signal has taken, and
\* the store never holds two signals for one token.
C33_StatusChangeKeepsTokenSignaled ==
    \A t \in Tokens :
        /\ Cardinality(SignalsOf(t)) <= 1
        /\ SignalsOf(t) /= {} => t \in signaled_tokens

\* C33 witness: every token's only Signal has reached a terminal status, the
\* statuses differ, and a further event has just been skipped as a duplicate.
C33_Witness ==
    /\ lastOp.why = "duplicate"
    /\ \A t \in Tokens :
          /\ Cardinality(SignalsOf(t)) = 1
          /\ \A i \in SignalsOf(t) : db[i].status \in Terminal
    /\ \E i, j \in DOMAIN db : db[i].status /= db[j].status

\* The fields of a stored Signal that are fixed at creation.
CreationFields(row) ==
    <<row.id, row.token_address, row.trigger_tx_signature, row.signal_time,
      row.created_at, row.entry_curve_progress_pct, row.entry_liquidity_sol,
      row.entry_market_cap_sol, row.entry_price_sol, row.simulated_buy_sol>>

\* C34: no tracker operation changes a stored Signal's id, token_address,
\* trigger_tx_signature, signal_time, created_at, entry snapshot (progress,
\* liquidity, market cap, price) or simulated_buy_sol.
C34_CreationFieldsFixed ==
    [][\A i \in DOMAIN db :
          /\ i \in DOMAIN db'
          /\ CreationFields(db'[i]) = CreationFields(db[i])]_vars

\* C34 witness: a curve update has just written a Signal that has an entry
\* price and an entry market cap, and recorded a PnL in it.
C34_Witness ==
    /\ lastOp.op = "handle_curve_update"
    /\ \E i \in Written(lastOp) :
          /\ IsSet(db[i].entry_price_sol)
          /\ IsSet(db[i].entry_market_cap_sol)
          /\ IsSet(db[i].outcome_json.simulated_pnl_pct)

-----------------------------------------------------------------------------
(* Properties of the generator and the tracker under SpecThreads *)

\* C5: with tracker calls running concurrently no update is lost: a stored
\* signal never goes back from a terminal status to Pending, and a terminal
\* status is never overwritten by another terminal status.
C5_NoLostUpdate ==
    [][\A i \in DOMAIN db :
          db[i].status \in Terminal =>
              /\ db'[i].status /= PENDING
              /\ db'[i].status \in Terminal => db'[i].status = db[i].status]_vars

\* C6: with evaluations of qualifying events for one token running
\* concurrently in one generator, at most one Signal of that token is stored.
C6_OneSignalPerTokenConcurrently ==
    \A t \in Tokens : Cardinality({i \in DOMAIN db : db[i].token_address = t}) <= 1

-----------------------------------------------------------------------------
(* Properties of the webhook handler under SpecWebhook *)

\* The deliveries of one signature / of one request, as positions of the log.
DeliveriesOf(sig) == {k \in DOMAIN deliveries : deliveries[k].sig = sig}

ProcessedOf(r, sig) ==
    {k \in DeliveriesOf(sig) :
        deliveries[k].request = r /\ deliveries[k].verdict = "processed"}

DuplicatesOf(r, sig) ==
    {k \in DeliveriesOf(sig) :
        deliveries[k].request = r /\ deliveries[k].verdict = "duplicate"}

Signatures == {tx.signature : tx \in Transactions}

\* The signatures other than that of delivery k handled after delivery j and
\* before delivery k.
Between(j, k) ==
    {deliveries[m].sig : m \in (j + 1)..(k - 1)} \ {deliveries[k].sig}

LastBefore(k) ==
    CHOOSE j \in DeliveriesOf(deliveries[k].sig) :
        /\ j < k
        /\ \A m \in DeliveriesOf(deliveries[k].sig) : m < k => m <= j

\* The counters of a request agree with the verdicts given to its transactions.
CountersAgree ==
    \A r \in DOMAIN requests :
        /\ requests[r].processed =
              Cardinality({k \in DOMAIN deliveries :
                  deliveries[k].request = r /\ deliveries[k].verdict = "processed"})
        /\ requests[r].duplicates =
              Cardinality({k \in DOMAIN deliveries :
                  deliveries[k].request = r /\ deliveries[k].verdict = "duplicate"})
        /\ requests[r].signals_generated <= requests[r].migrations_detected
        /\ requests[r].migrations_detected <= requests[r].processed

\* C1, as stated: over any sequence of batches a signature is counted as
\* processed at most once, and a duplicate is never classified.
C1_ProcessedOnce ==
    /\ \A sig \in Signatures :
          Cardinality({k \in DeliveriesOf(sig) :
                          deliveries[k].verdict = "processed"}) <= 1
    /\ \A k \in DOMAIN deliveries :
          deliveries[k].verdict = "duplicate" => ~deliveries[k].classified

\* C1, amended: a delivery of a signature is counted as a duplicate, and is
\* not classified, exactly when the signature was delivered before and fewer
\* than max_size other signatures were handled since its previous delivery;
\* otherwise it is counted as processed.  The counters of every request agree
\* with these verdicts.
C1_ProcessedOnceWithinWindow ==
    /\ CountersAgree
    /\ \A k \in DOMAIN deliveries :
          /\ deliveries[k].verdict = "duplicate" <=> ~deliveries[k].classified
          /\ deliveries[k].verdict = "duplicate" <=>
                /\ \E j \in DeliveriesOf(deliveries[k].sig) : j < k
                /\ Cardinality(Between(LastBefore(k), k)) < max_size

\* C1 witness: one signature has been delivered twice in one batch and again
\* in another batch, the later deliveries counted as duplicates, and a
\* different signature was handled in between.
C1_Witness ==
    \E j, k, l \in DOMAIN deliveries :
        /\ j < k /\ k < l
        /\ deliveries[j].sig = deliveries[k].sig
        /\ deliveries[k].sig = deliveries[l].sig
        /\ deliveries[j].request = deliveries[k].request
        /\ deliveries[l].request /= deliveries[k].request
        /\ deliveries[j].verdict = "processed"
        /\ deliveries[k].verdict = "duplicate"
        /\ deliveries[l].verdict = "duplicate"
        /\ Between(k, l) /= {}

\* Two different requests, both returned, whose batches share a signature
\* that no other request has delivered.
SharedByReturned(r1, r2, sig) ==
    /\ r1 /= r2
    /\ \A k \in DeliveriesOf(sig) : deliveries[k].request \in {r1, r2}
    /\ requests[r1].pc = "done"
    /\ requests[r2].pc = "done"
    /\ \E k \in DOMAIN requests[r1].transactions :
          requests[r1].transactions[k].signature = sig
    /\ \E k \in DOMAIN requests[r2].transactions :
          requests[r2].transactions[k].signature = sig

ExactlyOneProcesses(r1, r2, sig) ==
    \/ /\ Cardinality(ProcessedOf(r1, sig)) = 1
       /\ ProcessedOf(r2, sig) = {}
       /\ DuplicatesOf(r2, sig) /= {}
    \/ /\ Cardinality(ProcessedOf(r2, sig)) = 1
       /\ ProcessedOf(r1, sig) = {}
       /\ DuplicatesOf(r1, sig) /= {}

-----------------------------------------------------------------------------
(* Properties of the functions called on their own, under SpecCalls *)

PnlCalled == call.fn = "calculate_simulated_pnl" /\ Returned

\* C13: for a set, non-zero entry price and a positive buy amount,
\* calculate_simulated_pnl leaves simulated_exit_sol = (buy / entry) * exit,
\* simulated_pnl_sol = simulated_exit_sol - buy and simulated_pnl_pct =
\* simulated_pnl_sol / buy * 100 (stated here without division); entry 0.001,
\* buy 0.5, exit 0.002 gives +100 percent and +0.5.
C13_PnlLaw ==
    PnlCalled =>
        LET signal == call.args.signal
            exit == call.args.exit_price_sol
            buy == signal.simulated_buy_sol
            out == Val(call.ret).outcome
        IN  /\ (Truthy(signal.entry_price_sol) /\ RPos(buy)) =>
                  /\ out.simulated_entry_sol = Some(buy)
                  /\ IsSet(out.simulated_exit_sol)
                  /\ RMul(Val(out.simulated_exit_sol), Val(signal.entry_price_sol))
                        = RMul(buy, exit)
                  /\ IsSet(out.simulated_pnl_sol)
                  /\ RSub(Val(out.simulated_exit_sol), buy) = Val(out.simulated_pnl_sol)
                  /\ IsSet(out.simulated_pnl_pct)
                  /\ RMul(Val(out.simulated_pnl_pct), buy)
                        = RMul(Val(out.simulated_pnl_sol), RInt(100))
            /\ (signal.entry_price_sol = Some(R(1, 1000)) /\ buy = R(1, 2)
                   /\ exit = R(2, 1000)) =>
                  /\ out.simulated_pnl_pct = Some(RInt(100))
                  /\ out.simulated_pnl_sol = Some(R(1, 2))

\* C13 witness: the PnL of the example (entry 0.001, buy 0.5, exit 0.002) has
\* been calculated.
C13_Witness ==
    /\ PnlCalled
    /\ call.args.signal.entry_price_sol = Some(R(1, 1000))
    /\ call.args.signal.simulated_buy_sol = R(1, 2)
    /\ call.args.exit_price_sol = R(2, 1000)
    /\ IsSet(Val(call.ret).outcome.simulated_pnl_pct)

-----------------------------------------------------------------------------
(* Properties of the IdempotencyStore under SpecStore *)

StoredKeys(store) == {store[k] : k \in DOMAIN store}

\* C16: whatever contains, add, get and clear calls are made, the store never
\* holds more than max_size keys (and holds no key twice).
C16_StoreBounded ==
    /\ store_len(seen_signatures) <= max_size
    /\ Cardinality(StoredKeys(seen_signatures)) = store_len(seen_signatures)

\* C16 witness: the store is full and an add has just evicted a key.
C16_Witness ==
    /\ call.fn = "add"
    /\ store_len(seen_signatures) = max_size
    /\ \E k \in DOMAIN touched : ~HasKey(seen_signatures, touched[k])
    /\ HasKey(seen_signatures, call.args)

\* The position of a key in the order of last touches (an insertion by add,
\* an add of a present key, or a contains that returned true).
LastTouch(key) == CHOOSE k \in DOMAIN touched : touched[k] = key

\* C17: when add inserts a new key into a full store, exactly one key is
\* evicted, it is the stored key whose last touch is the oldest, and every
\* other key stored before is still stored, together with the new one.
C17_EvictsLeastRecentlyTouched ==
    [][(/\ call'.fn = "add"
        /\ StoreAdd(call'.args)
        /\ ~HasKey(seen_signatures, call'.args)
        /\ store_len(seen_signatures) = max_size) =>
          LET stored == StoredKeys(seen_signatures)
              evicted == stored \ StoredKeys(seen_signatures')
          IN  /\ Cardinality(evicted) = 1
              /\ \A e \in evicted : \A k \in stored : LastTouch(e) <= LastTouch(k)
              /\ StoredKeys(seen_signatures') = (stored \ evicted) \cup {call'.args}]_vars

\* C17 witness: an add into a full store has just evicted the least recently
\* touched of three keys, the two touched later being the ones stored.
C17_Witness ==
    /\ call.fn = "add"
    /\ Len(touched) = 3
    /\ ~HasKey(seen_signatures, touched[1])
    /\ seen_signatures = <<touched[2], touched[3]>>
    /\ touched[3] = call.args

-----------------------------------------------------------------------------
(* Properties of EventParser under SpecCalls *)

ParserCalled == call.fn = "parse_transaction" /\ Returned

\* No token-transfer record and no balance-change record of the transaction
\* names a mint ending with "pump".
NoSubjectToken(tx) ==
    /\ \A k \in DOMAIN tx.tokenTransfers :
          ~(IsSet(tx.tokenTransfers[k].mint)
            /\ ends_with_pump(Val(tx.tokenTransfers[k].mint)))
    /\ \A a \in DOMAIN tx.accountData :
          \A k \in DOMAIN tx.accountData[a].tokenBalanceChanges :
             ~(IsSet(tx.accountData[a].tokenBalanceChanges[k].mint)
               /\ ends_with_pump(Val(tx.accountData[a].tokenBalanceChanges[k].mint)))

\* C18: parse_transaction never raises; for a transaction without a
\* resolvable subject token, and for one whose parsing throws, it returns no
\* event.
C18_ParserTotal ==
    ParserCalled =>
        /\ ~Val(call.ret).raises
        /\ NoSubjectToken(call.args) => Val(call.ret).value = None
        /\ parse_transaction_body(call.args, now).raises => Val(call.ret).value = None

\* C18 witness: parse_transaction was called on a Pump.fun transaction whose
\* type is null (on which the type detection throws) and has returned no event.
C18_Witness ==
    /\ ParserCalled
    /\ call.args.signature /= ""
    /\ call.args.source = PUMP_FUN
    /\ call.args.type = None
    /\ parse_transaction_body(call.args, now).raises
    /\ Val(call.ret) = Returns(None)

\* The event kind the fixed mapping gives a type tag, whatever its case.
KindOfTag(tag) ==
    IF tag \in {"CREATE", "create"} THEN TOKEN_CREATED
    ELSE IF tag \in {"SWAP", "Swap"} THEN CURVE_PROGRESS
    ELSE IF tag \in {"MIGRATE", "Migration"} THEN MIGRATION
    ELSE UNKNOWN

\* C20: an event parse_transaction yields has the kind the fixed mapping
\* gives the transaction's type tag (CREATE: TokenCreated, SWAP: CurveProgress,
\* MIGRATE or MIGRATION: Migration, in any case), and a transaction with
\* another type, with a source other than PUMP_FUN or without a signature
\* yields no event; a mapped Pump.fun transaction whose first token transfer
\* names a pump mint does yield an event.
C20_TypeTagMapping ==
    ParserCalled =>
        LET tx == call.args
            event == Val(call.ret).value
            kind == IF IsSet(tx.type) THEN KindOfTag(Val(tx.type)) ELSE UNKNOWN
        IN  /\ IsSet(event) => (kind /= UNKNOWN /\ Val(event).event_type = kind)
            /\ (kind = UNKNOWN \/ tx.source /= PUMP_FUN \/ tx.signature = "")
                  => event = None
            /\ (/\ kind /= UNKNOWN
                /\ tx.source = PUMP_FUN
                /\ tx.signature /= ""
                /\ tx.tokenTransfers /= <<>>
                /\ tx.tokenTransfers[1].mint = Some("tokApump"))
                  => (IsSet(event) /\ Val(event).event_type = kind
                      /\ Val(event).token_address = "tokApump"
                      /\ Val(event).tx_signature = tx.signature)

\* C20 witness: a transaction tagged "Migration" (mixed case) has been parsed
\* into a Migration event.
C20_Witness ==
    /\ ParserCalled
    /\ call.args.type = Some("Migration")
    /\ IsSet(Val(call.ret).value)
    /\ Val(Val(call.ret).value).event_type = MIGRATION

-----------------------------------------------------------------------------
(* Error handling of the webhook handler under SpecWebhook *)

Stopped(r) == requests[r].pc \in {"done", "raised"}

HandledBy(r) == {k \in DOMAIN deliveries : deliveries[k].request = r}

\* C19: errors are isolated per item: a request that has stopped running has
\* handled every transaction of its batch, whether or not the processing of
\* one of them failed.
C19_ErrorsIsolatedPerItem ==
    \A r \in DOMAIN requests :
        Stopped(r) => Cardinality(HandledBy(r)) = Len(requests[r].transactions)

-----------------------------------------------------------------------------
(* Resolution of the subject token by EventParser, under SpecCalls *)

\* Every mint of the transaction's records is a string.
MintsAreStrings(tx) ==
    /\ \A k \in DOMAIN tx.tokenTransfers : IsSet(tx.tokenTransfers[k].mint)
    /\ \A a \in DOMAIN tx.accountData :
          \A k \in DOMAIN tx.accountData[a].tokenBalanceChanges :
             IsSet(tx.accountData[a].tokenBalanceChanges[k].mint)

\* The first mint ending with "pump" among the token transfers, else the first
\* among the balance changes of the accounts taken in order, else None.
FirstMatchingMint(tx) ==
    LET Matches(record) == ends_with_pump(Val(record.mint))
        transfers == SelectSeq(tx.tokenTransfers, Matches)
        changes == SelectSeq(
            Flatten([a \in DOMAIN tx.accountData |->
                        tx.accountData[a].tokenBalanceChanges]), Matches)
    IN  IF transfers /= <<>> THEN transfers[1].mint
        ELSE IF changes /= <<>> THEN changes[1].mint
        ELSE None

\* C21: for a Pump.fun transaction of a mapped type (CREATE, SWAP, MIGRATE),
\* the event's token is the first matching mint of the token transfers, else
\* the first matching mint of the nested balance changes, and the transaction
\* is discarded only when neither holds a match.
C21_SubjectTokenFirstMatch ==
    ParserCalled =>
        LET tx == call.args
            event == Val(call.ret).value
            kind == IF IsSet(tx.type) THEN KindOfTag(Val(tx.type)) ELSE UNKNOWN
            token == FirstMatchingMint(tx)
        IN  (/\ kind /= UNKNOWN
             /\ tx.source = PUMP_FUN
             /\ tx.signature /= ""
             /\ MintsAreStrings(tx))
               => IF IsSet(token)
                  THEN IsSet(event) /\ Val(event).token_address = Val(token)
                  ELSE event = None

-----------------------------------------------------------------------------
(* Properties of the generator's filters and entry price, under SpecCalls *)

FiltersCalled == call.fn = "check_filters" /\ Returned

\* C22: the threshold check rejects exactly when liquidity < min_liquidity, or
\* progress < min_progress, or progress > max_progress (a value on a threshold
\* is accepted), and the reason is that of the first failing check in the
\* order liquidity, progress too low, progress too high.
C22_FilterOrderAndBoundaries ==
    FiltersCalled =>
        LET e == call.args
            reason == Val(call.ret)
            low_liquidity == e.liquidity_sol < min_liquidity_sol
            low_progress == e.curve_progress_pct < min_curve_progress_pct
            high_progress == e.curve_progress_pct > max_curve_progress_pct
        IN  /\ IsSet(reason) <=> (low_liquidity \/ low_progress \/ high_progress)
            /\ low_liquidity => reason = Some("liquidity_too_low")
            /\ (~low_liquidity /\ low_progress) => reason = Some("curve_progress_too_low")
            /\ (~low_liquidity /\ ~low_progress /\ high_progress)
                  => reason = Some("curve_progress_too_high")

\* C22 witness: an event failing both the liquidity and the progress check was
\* rejected for its liquidity.
C22_Witness ==
    /\ FiltersCalled
    /\ call.args.liquidity_sol < min_liquidity_sol
    /\ call.args.curve_progress_pct > max_curve_progress_pct
    /\ Val(call.ret) = Some("liquidity_too_low")

PriceCalled == call.fn = "estimate_price" /\ Returned

\* C24: the entry price of a Signal built from a CurveProgress event is the
\* event's unit price when that is positive; otherwise market_cap /
\* 1,000,000,000 when the market cap is positive; otherwise unset.
C24_EntryPriceDerivation ==
    PriceCalled =>
        LET unit == token_price_sol(call.args)
            cap == market_cap_sol(call.args)
            entry == Val(call.ret)
            unit_positive == IsSet(unit) /\ RPos(Val(unit))
            cap_positive == IsSet(cap) /\ RPos(Val(cap))
        IN  /\ unit_positive => entry = unit
            /\ (~unit_positive /\ cap_positive)
                  => entry = Some(R(Val(cap)[1], Val(cap)[2] * total_supply))
            /\ (~unit_positive /\ ~cap_positive) => entry = None

\* C24 witness: an event with a positive unit price and a positive market cap
\* that gives another price has been priced by its unit price.
C24_Witness ==
    /\ PriceCalled
    /\ token_price_sol(call.args) = Some(R(2, 1000))
    /\ market_cap_sol(call.args) = Some(RInt(1000000))
    /\ Val(call.ret) = Some(R(2, 1000))

-----------------------------------------------------------------------------
(* Properties of FilterChain under SpecCalls *)

ChainCalled == call.fn = "FilterChain.evaluate" /\ Returned

Rejecting(filters) == {k \in DOMAIN filters : ~filters[k].result.passed}

FirstRejecting(filters) ==
    CHOOSE k \in Rejecting(filters) : \A j \in Rejecting(filters) : k <= j

\* C23: FilterChain.evaluate runs the filters in insertion order; it returns
\* the rejection of the first filter that does not pass, with that filter's
\* name in the reason, and evaluates no later filter; it returns accept when
\* every filter passes or the chain is empty.
C23_FirstRejectionWins ==
    ChainCalled =>
        LET filters == call.args
            ret == Val(call.ret)
        IN  IF Rejecting(filters) = {}
            THEN /\ ret.result = accept
                 /\ ret.evaluated = [k \in DOMAIN filters |-> filters[k].name]
            ELSE LET first == FirstRejecting(filters)
                 IN  /\ ~ret.result.passed
                     /\ ret.result.reason =
                            Some(<<filters[first].name, filters[first].result.reason>>)
                     /\ ret.evaluated = [k \in 1..first |-> filters[k].name]

\* C23 witness: a chain of a passing filter followed by two different
\* rejecting filters returned the rejection of the first of the two.
C23_Witness ==
    /\ ChainCalled
    /\ Len(call.args) = 3
    /\ call.args[1].name = "liquidity"
    /\ call.args[2].name = "holders"
    /\ call.args[3].name = "progress"
    /\ Val(call.ret).result = reject(<<"holders", Some("too_few")>>)
    /\ Val(call.ret).evaluated = <<"liquidity", "holders">>

-----------------------------------------------------------------------------
(* Properties of SignalStorage under SpecSave *)

\* C27: save is an idempotent upsert by id: the store holds one record per id
\* saved, the record of the saved id is the one just written whether or not the
\* id was there before, the records of other ids are untouched, and saving the
\* same Signal again leaves the store as it is.
C27_SaveIdempotentUpsert ==
    [][call'.fn = "save" =>
          LET s == call'.args
          IN  /\ DOMAIN db' = (DOMAIN db) \cup {s.id}
              /\ db'[s.id] = SignalToRow(s)
              /\ \A j \in DOMAIN db : j /= s.id => db'[j] = db[j]
              /\ save(db', s) = db']_vars

\* C27 witness: a Migrated Signal has just been saved and its record stands
\* next to the Pending record of another id.
C27_Witness ==
    /\ call.fn = "save"
    /\ DOMAIN db = StoredIds
    /\ call.args.status = MIGRATED
    /\ db[call.args.id].status = MIGRATED
    /\ \E j \in DOMAIN db : j /= call.args.id /\ db[j].status = PENDING


\* C28: get(s.id) right after save(s) returns a Signal equal to s in every
\* field: status, entry snapshot, buy amount and Outcome, a monetary value of
\* zero included.
C28_RoundTrip ==
    [][(call.fn = "save" /\ call'.fn = "get" /\ call'.args = call.args.id)
          => Val(call'.ret) = Some(call.args)]_vars


StatsCalled == call.fn = "get_stats" /\ IsSet(call.ret)

\* The stored signals that are Migrated with a PnL set.
Completed == {i \in DOMAIN db : /\ db[i].status = MIGRATED
                                /\ IsSet(db[i].outcome_json.simulated_pnl_pct)}

\* C29: get_stats reports for each status the number of stored signals with
\* that status, and a PnL summary over the Migrated signals with a PnL set
\* only: total_completed = winners + losers, winners being those with pnl > 0
\* and losers those with pnl <= 0; Pending, Failed and Expired signals do not
\* contribute.
C29_StatsOverMigratedOnly ==
    StatsCalled =>
        LET stats == Val(call.ret)
            Pct(i) == Val(db[i].outcome_json.simulated_pnl_pct)
        IN  /\ \A st \in SignalStatus :
                  LET n == Cardinality({i \in DOMAIN db : db[i].status = st})
                  IN  IF n = 0 THEN st \notin DOMAIN stats.by_status
                      ELSE stats.by_status[st] = n
            /\ stats.pnl.total_completed = Cardinality(Completed)
            /\ stats.pnl.winners = Cardinality({i \in Completed : Pct(i)[1] > 0})
            /\ stats.pnl.losers = Cardinality({i \in Completed : Pct(i)[1] <= 0})
            /\ stats.pnl.total_completed = stats.pnl.winners + stats.pnl.losers
            /\ Completed = {} => stats.pnl.win_rate = None
            /\ Completed /= {} =>
                  /\ Val(stats.pnl.min_pnl_pct) \in {Pct(i) : i \in Completed}
                  /\ Val(stats.pnl.max_pnl_pct) \in {Pct(i) : i \in Completed}

\* C29 witness: the statistics were taken over a store holding a Failed signal
\* with a PnL of -100 and a Migrated signal with a gain, and report one
\* completed signal, a winner.
C29_Witness ==
    /\ StatsCalled
    /\ \E i, j \in DOMAIN db :
          /\ db[i].status = FAILED
          /\ db[i].outcome_json.simulated_pnl_pct = Some(RInt(-100))
          /\ db[j].status = MIGRATED
          /\ db[j].outcome_json.simulated_pnl_pct = Some(RInt(50))
    /\ Val(call.ret).pnl.total_completed = 1
    /\ Val(call.ret).pnl.winners = 1
    /\ Val(call.ret).pnl.losers = 0


-----------------------------------------------------------------------------
(* The native amount of a CurveProgress event, under SpecCalls *)

\* The native amount as stated: the sum of the explicit native transfers when
\* there are any, else the sum of the absolute native balance deltas halved.
StatedNativeAmount(tx) ==
    IF tx.nativeTransfers /= <<>>
    THEN R(SumSeq(AbsSeq(tx.nativeTransfers)), lamports_per_sol)
    ELSE RDiv(R(SumSeq(AbsSeq([k \in DOMAIN tx.accountData |->
                                  tx.accountData[k].nativeBalanceChange])),
                lamports_per_sol),
              RInt(2))

\* C35: the liquidity of a CurveProgress event is the native amount of the
\* explicit transfer list when that list is non-empty, and the halved sum of
\* absolute balance deltas only when it is empty; unit price and market cap
\* are computed from that same amount.
C35_HalvingInFallbackOnly ==
    (/\ ParserCalled
     /\ IsSet(Val(call.ret).value)
     /\ Val(Val(call.ret).value).event_type = CURVE_PROGRESS) =>
        LET tx == call.args
            event == Val(Val(call.ret).value)
            native == StatedNativeAmount(tx)
        IN  /\ event.liquidity_sol = native
            /\ IsSet(event.token_price_sol) =>
                  /\ Val(event.token_price_sol) = RDiv(native, event.token_amount)
                  /\ event.market_cap_sol =
                        Some(RMul(Val(event.token_price_sol), RInt(total_supply)))


-----------------------------------------------------------------------------
(* Classified CurveProgress events against the progress thresholds, under *)
(* SpecCalls                                                              *)

PipelineCalled == call.fn = "classify_and_evaluate" /\ Returned

\* C36: every CurveProgress event the parser builds carries progress 0, so
\* with min_curve_progress_pct above 0 no classified transaction leads
\* evaluate_curve_progress to create a Signal, and with
\* min_curve_progress_pct = 0 the progress checks reject no classified event.
C36_ProgressAlwaysZero ==
    PipelineCalled =>
        LET f == call.args.filters
            ret == Val(call.ret)
        IN  /\ IsSet(ret.event) => Val(ret.event).curve_progress_pct = 0
            /\ f.min_curve_progress_pct > 0 => ~ret.created
            /\ f.min_curve_progress_pct = 0 =>
                  ret.rejection \notin {Some("curve_progress_too_low"),
                                        Some("curve_progress_too_high")}

\* C36 witness: a swap of 1 SOL was classified and then rejected for its
\* progress under a lower progress threshold of 10 and no liquidity threshold.
C36_Witness ==
    /\ PipelineCalled
    /\ call.args.filters.min_curve_progress_pct = 10
    /\ call.args.filters.min_liquidity_sol = 0
    /\ IsSet(Val(call.ret).event)
    /\ Val(Val(call.ret).event).liquidity_sol = R(1, 2)
    /\ Val(call.ret).rejection = Some("curve_progress_too_low")


-----------------------------------------------------------------------------
(* Properties of MigrationParser under SpecCalls *)

MigrationParsed == call.fn = "MigrationParser.parse" /\ Returned

BaseQuoteTokens ==
    {"So11111111111111111111111111111111111111112",
     "EPjFWdd5AufqSSqeM2qN1xzybapC8G4wEGGkZwyTDt1v",
     "Es9vMFrzaCERmJfrF4H2FYD4KCoNkY11McCe8BenwNYB"}

\* The mints of a transaction in the order they are met: the token transfers,
\* then the balance changes account by account.
MintsInOrder(tx) == tx.tokenTransfers \o Flatten(tx.accountData)

SubjectCandidates(tx) ==
    {k \in DOMAIN MintsInOrder(tx) :
        MintsInOrder(tx)[k] /= "" /\ MintsInOrder(tx)[k] \notin BaseQuoteTokens}

\* C37: MigrationParser.parse yields an event only for a PUMP_FUN transaction
\* that has a mint which is not wrapped SOL, USDC or USDT; the event's token
\* is the first such mint and never a base/quote token; a transaction without
\* such a mint yields no event.
C37_SubjectTokenExcludesBaseQuote ==
    MigrationParsed =>
        LET tx == call.args
            ret == Val(call.ret)
            mints == MintsInOrder(tx)
        IN  /\ ~ret.raises
            /\ IsSet(ret.value) =>
                  /\ tx.source = PUMP_FUN
                  /\ SubjectCandidates(tx) /= {}
                  /\ Val(ret.value).token_mint \notin BaseQuoteTokens
                  /\ \E k \in SubjectCandidates(tx) :
                        /\ Val(ret.value).token_mint = mints[k]
                        /\ \A j \in SubjectCandidates(tx) : k <= j
            /\ SubjectCandidates(tx) = {} => ret.value = None

\* C37 witness: a PUMP_FUN transaction that transfers USDC and wrapped SOL and
\* whose balance changes name USDT before two memecoins has yielded an event
\* for the first memecoin.
C37_Witness ==
    /\ MigrationParsed
    /\ call.args.tokenTransfers = <<"EPjFWdd5AufqSSqeM2qN1xzybapC8G4wEGGkZwyTDt1v",
                                    "So11111111111111111111111111111111111111112">>
    /\ call.args.accountData =
          <<<<>>, <<"Es9vMFrzaCERmJfrF4H2FYD4KCoNkY11McCe8BenwNYB", "mintA", "mintB">>>>
    /\ IsSet(Val(call.ret).value)
    /\ Val(Val(call.ret).value).token_mint = "mintA"


-----------------------------------------------------------------------------
(* The counters of a completed batch, under SpecWebhook *)

TransactionOf(sig) == CHOOSE tx \in Transactions : tx.signature = sig

\* C38: for a batch that completes, processed + duplicates is the number of
\* its transactions, migrations_detected <= processed and signals_generated <=
\* migrations_detected; a transaction from a source other than PUMP_FUN that
\* is not a duplicate is counted as processed like any other, and the
\* signature handled last is marked as seen.
C38_BatchCounters ==
    /\ \A r \in DOMAIN requests :
          requests[r].pc = "done" =>
             /\ requests[r].processed + requests[r].duplicates
                   = Len(requests[r].transactions)
             /\ requests[r].migrations_detected <= requests[r].processed
             /\ requests[r].signals_generated <= requests[r].migrations_detected
             /\ requests[r].processed = Cardinality({k \in HandledBy(r) :
                                                       deliveries[k].verdict = "processed"})
    /\ \A k \in DOMAIN deliveries :
          (/\ TransactionOf(deliveries[k].sig).source /= PUMP_FUN
           /\ \A j \in 1..(k - 1) : deliveries[j].sig /= deliveries[k].sig)
             => deliveries[k].verdict = "processed"
    /\ deliveries /= <<>> => HasKey(seen_signatures, deliveries[Len(deliveries)].sig)

\* C38 witness: a batch of a Raydium transaction and a Pump.fun migration has
\* completed with both counted as processed, one migration detected and a
\* signal generated, and the Raydium signature is marked as seen.
C38_Witness ==
    \E r \in DOMAIN requests :
        /\ requests[r].pc = "done"
        /\ Len(requests[r].transactions) = 2
        /\ requests[r].transactions[1].source /= PUMP_FUN
        /\ requests[r].processed = 2
        /\ requests[r].duplicates = 0
        /\ requests[r].migrations_detected = 1
        /\ requests[r].signals_generated = 1
        /\ HasKey(seen_signatures, requests[r].transactions[1].signature)

====
